---- MODULE Spec2Model ----
(***************************************************************************)
(* Batch pipeline of image_compressor.                                     *)
(*                                                                         *)
(* Spec      one run of the engine.  mode = "seq": one CompressionWorker   *)
(*           (gui/worker.py) started by the GUI, together with the GUI     *)
(*           thread that receives its queued signals and may stop it       *)
(*           (gui/main_window.py).  mode = "pool": one call of             *)
(*           process_with_multiprocessing (main.py).                       *)
(* PlanSpec  the planning functions (deduplication and the derivation of   *)
(*           output paths) applied to bounded request values.              *)
(***************************************************************************)
EXTENDS Integers, Sequences, FiniteSets, TLC

(* ------------------------------ bounds --------------------------------- *)

\* largest number of assignments made to the properties of one ImageCompressor
MaxSets == 2

\* largest number of files whose output names are planned together
MaxNames == 2

\* largest file size, in bytes, of the savings computation (besides 400 and 1000)
MaxBytes == 8

\* largest number of paths in one drop, and of user actions in one session
MaxDrop == 2
MaxOps == 4

\* largest file size on the modelled disk
MaxSize == 2

\* largest number of files handed to one run
MaxFiles == 3

\* number of pool processes (mp.cpu_count() of the modelled machine)
NumProcesses == 2

\* longest candidate list handed to planning
MaxLen == 3

(* ------------------------- state of one run ---------------------------- *)

VARIABLES
    mode,             \* "seq" (gui/worker.py) or "pool" (main.py); "plan" under PlanSpec,
                      \* "task" under TaskSpec
    total_files,      \* len(unique_files) / len(tasks)
    format_type,      \* the format name the run was started with
    AVIF_AVAILABLE,   \* whether pillow_avif could be imported
    delete_original,  \* CompressionWorker.delete_original
    wpc,              \* position of CompressionWorker.run
    idx,              \* number of loop iterations completed (i of enumerate)
    successful,       \* local counter successful
    errors,           \* local counter errors (main.py: failed)
    is_cancelled,     \* CompressionWorker.is_cancelled
    observed_cancel,  \* the loop was left through the break of line 65
    raised,           \* number of tasks whose body raised an exception
    started,          \* started[i]: how many times task i was begun
    outcome,          \* how the task begun last ended
    emitted,          \* every event the engine emitted, in emission order
    queue,            \* queued signals not yet delivered to the GUI thread
    delivered,        \* signals the GUI thread has handled, in order
    gui,              \* GUI thread: "idle" (event loop) or "waiting" (worker.wait())
    start_enabled,    \* start_button.isEnabled()
    stop_enabled,     \* stop_button.isEnabled()
    handled,          \* arguments of every compression_finished call
    progress_bar,     \* progress_bar.value()
    ppc,              \* position of process_with_multiprocessing
    cursor,           \* number of tasks the pool has handed out
    busy,             \* busy[w]: the task process w is working on, 0 when idle
    results,          \* results[i]: what compress_single_image returned for task i
    collected         \* number of results the imap loop has consumed

VARIABLES
    request,          \* the planning input: files, format, delete_original, the text of
                      \* the postfix field and the postfix got from it
    pstage,           \* "request", "planned"
    gui_plan,         \* start_compression: unique_files and duplicate_count
    worker_plan,      \* CompressionWorker: files, unique_files, duplicates, tasks
    pool_plan,        \* prepare_compression_tasks(files): the tasks, or the KeyError raised
    gui_plan2,        \* start_compression applied to files ++ files
    worker_plan2      \* CompressionWorker applied to that

VARIABLES
    job,              \* one task's surroundings: file_path, postfix, quality, platform, dir_writable
    disk,             \* the files that exist, by name on disk, each with its size
    disk0,            \* disk when the task began
    it                \* locals of the iteration: output_path, sizes, what was called

VARIABLES
    files_to_process, \* ImageCompressorGUI.files_to_process
    clear_enabled,    \* clear_button.isEnabled()
    log_text,         \* what the GUI itself appended to log_text, in order
    urls,             \* the paths of the last drop, or the path typed into the CLI
    reported,         \* what the last handler told the user
    ops,              \* number of user actions so far
    cli,              \* main(): "" before the path is typed, then "returned", or "pool"
                      \* once the pool was started
    last_image_files, \* main(): the image_files that collect_image_files returned
    workers,          \* the CompressionWorker threads started so far, each "running"
                      \* or "ended"; self.worker is the last
    pending,          \* workers whose finished_processing signal waits in the event queue
    savings,          \* one call of get_savings_info: its arguments and what it returned
    naming,           \* one planning of output names: the paths handed in, the settings,
                      \* the files collected from them and the tasks planned
    compressor,       \* an ImageCompressor object: its stored quality and output format
    setter            \* the last assignment to a property of it, and what it raised

runParams  == <<mode, total_files, format_type, AVIF_AVAILABLE, delete_original>>
workerVars == <<wpc, idx, is_cancelled, observed_cancel, raised, outcome>>
countVars  == <<successful, errors, started>>
eventVars  == <<emitted, queue, delivered>>
guiVars    == <<gui, start_enabled, stop_enabled, handled, progress_bar>>
poolVars   == <<ppc, cursor, busy, results, collected>>
planVars   == <<request, pstage, gui_plan, worker_plan, pool_plan, gui_plan2, worker_plan2>>
runVars    == <<runParams, workerVars, countVars, eventVars, guiVars, poolVars>>
taskVars   == <<job, disk, disk0, it>>
dropVars   == <<files_to_process, clear_enabled, log_text, urls, reported, ops, cli,
                last_image_files, workers, pending>>
calcVars   == <<savings>>
nameVars   == <<naming>>
setterVars == <<compressor, setter>>
auxVars    == <<taskVars, dropVars, calcVars, nameVars, setterVars>>
vars       == <<runVars, planVars, auxVars>>

(* ------------------------------ events --------------------------------- *)

\* One emitted signal / printed line.  Progress: a = percent.  TaskDone: a = the
\* task (its file name).  Completed: a = successful, b = errors.  Log: level.
Ev(type, level, a, b) == [type |-> type, level |-> level, a |-> a, b |-> b]

LogEv(level)       == Ev("Log", level, 0, 0)
ProgressEv(p)      == Ev("Progress", "", p, 0)
TaskDoneEv(i)      == Ev("TaskDone", "", i, 0)
CompletedEv(s, e)  == Ev("Completed", "", s, e)

\* the line of worker.py:141: a failure and its reason, naming the task's file
FailureEv(i)       == Ev("Log", "error", i, 0)

\* start_compression connects progress_updated, log_message and
\* finished_processing; file_processed has no slot and is never delivered.
Connected(ev) == ev.type \in {"Progress", "Log", "Completed"}

RECURSIVE SelectConnected(_)
SelectConnected(evs) ==
    IF evs = <<>> THEN <<>>
    ELSE IF Connected(Head(evs))
         THEN <<Head(evs)>> \o SelectConnected(Tail(evs))
         ELSE SelectConnected(Tail(evs))

(* ------------------------ formats and codecs --------------------------- *)

\* ImageCompressor.output_formats
output_formats ==
    [f \in {"HEIF", "WEBP", "AVIF", "JPEG"} |->
        CASE f = "HEIF" -> ".heic"
          [] f = "WEBP" -> ".webp"
          [] f = "AVIF" -> ".avif"
          [] f = "JPEG" -> ".jpg"]

\* main.py OUTPUT_EXTENSIONS
OUTPUT_EXTENSIONS ==
    [f \in {"WEBP", "HEIF", "AVIF"} |->
        CASE f = "WEBP" -> ".webp"
          [] f = "HEIF" -> ".heic"
          [] f = "AVIF" -> ".avif"]

\* Format names a run is started with: a plain one, the one that needs the
\* optional plugin, and one that is a key of neither table.  (HEIF and JPEG
\* differ from WEBP only in the extension, which PlanSpec covers.)
RunFormats == {"WEBP", "AVIF", "PNG"}

\* variant: the constructor never raises
SetupNeverFails(fmt, avif) == FALSE

\* ImageCompressor.__init__: raises ImportError for AVIF without the plugin and
\* checks nothing else.
SetupFails(fmt, avif) == fmt = "AVIF" /\ ~avif

(* ------------------- CompressionWorker.run (sequential) ---------------- *)

\* ways the body of one loop iteration can end
Raising == {"noperm", "encfail", "missing", "keyerror"}

\* line 70: the lookup of the format's extension raises KeyError for a name
\* that is no key; otherwise the task ends well or fails at the write check
\* (92), in compress_image (97) or at the existence check (133).
TaskOutcomes(fmt) ==
    IF fmt \in DOMAIN output_formats THEN {"ok", "noperm", "encfail", "missing"}
    ELSE {"keyerror"}

\* line 120: the original is removed only when delete_original is set; "kept"
\* with delete_original set is the case input_path = output_path.
Deletions(del) == IF del THEN {"kept", "deleted", "delete_failed"} ELSE {"kept"}

\* variant: the loop never looks at the flag
CancelIgnored(flag) == FALSE

\* line 64
CancelObserved(flag) == flag

\* variant: successful is incremented before the existence check of line 100
SuccessfulBeforeCheck(o, s) == IF o \in {"ok", "missing"} THEN s + 1 ELSE s

\* lines 131 and 140
SuccessfulAfter(o, s) == IF o = "ok" THEN s + 1 ELSE s
ErrorsAfter(o, e)     == IF o \in Raising THEN e + 1 ELSE e

\* variant: no inner handler, an exception reaches the handler of line 147
AfterTaskEscapes(o) == IF o \in Raising THEN "finish" ELSE "loop"

\* the inner except (139) catches what the body raises, so the loop goes on
AfterTask(o) == "loop"

\* variant: the percentage is taken from the index i of enumerate
ProgressOfIndex(i, total) == (i * 100) \div total

\* line 144: int(((i + 1) / total_files) * 100).  The double arithmetic gives
\* the exact floor for every total_files below 50 (29 of 50 gives 57).
Progress(i, total) == ((i + 1) * 100) \div total

\* variant: the inner handler counts the error without logging it
TaskEventsSilentFailure(i, o, d, total) ==
    (IF o = "ok" THEN <<LogEv("info"), LogEv("info"), LogEv("info"), TaskDoneEv(i + 1)>>
     ELSE IF o = "keyerror" THEN <<>> ELSE <<LogEv("info"), LogEv("info")>>)
    \o <<ProgressEv(Progress(i, total))>>

\* signals emitted by one iteration: the two lines of 86-87, then either the
\* error line of 141 or the success report of 107-117 (one entry here, whether
\* it is printed as one line or two), the line about the original of 123-129
\* and file_processed (137); progress_updated (145) in every case.  The body
\* raises KeyError at line 70, before the lines of 86-87.
TaskEvents(i, o, d, total) ==
    (CASE o = "keyerror" -> <<FailureEv(i + 1)>>
       [] o \in Raising \ {"keyerror"} -> <<LogEv("info"), LogEv("info"), FailureEv(i + 1)>>
       [] o = "ok" ->
            <<LogEv("info"), LogEv("info"), LogEv("info")>>
            \o (CASE d = "kept" -> <<>>
                  [] d = "deleted" -> <<LogEv("info")>>
                  [] d = "delete_failed" -> <<LogEv("warning")>>)
            \o <<TaskDoneEv(i + 1)>>)
    \o <<ProgressEv(Progress(i, total))>>

\* variant: a log line follows the terminal signal
FinishThenLog(s, e) == <<CompletedEv(s, e), LogEv("info")>>

\* line 150
FinishEvents(s, e) == <<CompletedEv(s, e)>>

Emit(evs) ==
    /\ emitted' = emitted \o evs
    /\ queue' = queue \o SelectConnected(evs)

\* lines 42-61: counters, duplicate check (self.files is already a set, so no
\* message), register_heif_opener and the construction of the compressor
WorkerSetup ==
    /\ mode = "seq" /\ wpc = "begin"
    /\ IF SetupFails(format_type, AVIF_AVAILABLE)
       THEN /\ Emit(<<LogEv("critical")>>)
            /\ wpc' = "finish"
       ELSE /\ Emit(<<>>)
            /\ wpc' = "loop"
    /\ delivered' = delivered
    /\ UNCHANGED <<idx, is_cancelled, observed_cancel, raised, outcome>>
    /\ UNCHANGED <<runParams, countVars, guiVars, poolVars, planVars, auxVars>>

\* lines 63-65: the head of the for loop
WorkerLoop ==
    /\ mode = "seq" /\ wpc = "loop"
    /\ IF idx = total_files
       THEN /\ wpc' = "finish"
            /\ UNCHANGED <<observed_cancel, started>>
       ELSE IF CancelObserved(is_cancelled)
       THEN /\ wpc' = "finish"
            /\ observed_cancel' = TRUE
            /\ UNCHANGED started
       ELSE /\ wpc' = "task"
            /\ started' = [started EXCEPT ![idx + 1] = @ + 1]
            /\ UNCHANGED observed_cancel
    /\ UNCHANGED <<idx, is_cancelled, raised, outcome, successful, errors>>
    /\ UNCHANGED <<runParams, eventVars, guiVars, poolVars, planVars, auxVars>>

\* lines 67-145: the body of one iteration
WorkerTask ==
    /\ mode = "seq" /\ wpc = "task"
    /\ \E o \in TaskOutcomes(format_type), d \in Deletions(delete_original) :
        /\ o # "ok" => d = "kept"
        /\ outcome' = o
        /\ raised' = IF o \in Raising THEN raised + 1 ELSE raised
        /\ successful' = SuccessfulAfter(o, successful)
        /\ errors' = ErrorsAfter(o, errors)
        /\ Emit(TaskEvents(idx, o, d, total_files))
        /\ wpc' = AfterTask(o)
    /\ idx' = idx + 1
    /\ delivered' = delivered
    /\ UNCHANGED <<is_cancelled, observed_cancel, started>>
    /\ UNCHANGED <<runParams, guiVars, poolVars, planVars, auxVars>>

\* lines 147-150: the outer handler has logged, the terminal signal goes out
WorkerFinish ==
    /\ mode = "seq" /\ wpc = "finish"
    /\ Emit(FinishEvents(successful, errors))
    /\ wpc' = "done"
    /\ delivered' = delivered
    /\ UNCHANGED <<idx, is_cancelled, observed_cancel, raised, outcome>>
    /\ UNCHANGED <<runParams, countVars, guiVars, poolVars, planVars, auxVars>>

(* ----------------------- the GUI thread (main_window.py) --------------- *)

\* compression_finished(successful, errors, cancelled)
CompressionFinished(s, e, c) ==
    /\ start_enabled' = TRUE
    /\ stop_enabled' = FALSE
    /\ handled' = Append(handled, [successful |-> s, errors |-> e, cancelled |-> c])

\* the signal the event loop takes next: queued connections are FIFO
NextSignal(q) == Head(q)
RestSignals(q) == Tail(q)

\* the event loop runs one queued slot: progress_bar.setValue, log_text.append
\* or compression_finished(successful, errors)
Deliver ==
    /\ mode = "seq" /\ gui = "idle" /\ queue # <<>>
    /\ LET ev == NextSignal(queue) IN
        /\ queue' = RestSignals(queue)
        /\ delivered' = Append(delivered, ev)
        /\ CASE ev.type = "Progress" ->
                  /\ progress_bar' = ev.a
                  /\ UNCHANGED <<start_enabled, stop_enabled, handled>>
             [] ev.type = "Completed" ->
                  /\ CompressionFinished(ev.a, ev.b, FALSE)
                  /\ UNCHANGED progress_bar
             [] OTHER -> UNCHANGED <<start_enabled, stop_enabled, handled, progress_bar>>
    /\ UNCHANGED <<gui, emitted>>
    /\ UNCHANGED <<runParams, workerVars, countVars, poolVars, planVars, auxVars>>

\* stop_compression up to worker.wait(): the click needs the enabled button
StopCompression ==
    /\ mode = "seq" /\ gui = "idle" /\ stop_enabled
    /\ IF wpc # "done"
       THEN /\ is_cancelled' = TRUE
            /\ gui' = "waiting"
            /\ UNCHANGED <<start_enabled, stop_enabled, handled>>
       ELSE /\ CompressionFinished(0, 0, TRUE)
            /\ UNCHANGED <<is_cancelled, gui>>
    /\ UNCHANGED <<wpc, idx, observed_cancel, raised, outcome, progress_bar>>
    /\ UNCHANGED <<runParams, countVars, eventVars, poolVars, planVars, auxVars>>

\* variant: the wait ends only once the worker's queued signals are handled
WaitForSignals(pc) == pc = "done" /\ queue = <<>>

\* QThread.wait(): blocks the calling thread until run() has returned
WaitReturns(pc) == pc = "done"

\* worker.wait() returns when run() has returned; line 231 follows
StopCompressionReturn ==
    /\ mode = "seq" /\ gui = "waiting" /\ WaitReturns(wpc)
    /\ CompressionFinished(0, 0, TRUE)
    /\ gui' = "idle"
    /\ UNCHANGED progress_bar
    /\ UNCHANGED <<runParams, workerVars, countVars, eventVars, poolVars, planVars, auxVars>>

(* ---------------- process_with_multiprocessing (main.py) ---------------- *)

Processes == 1 .. NumProcesses

\* what compress_single_image returns: "ok" the line starting with the check
\* mark (52), "exc" the line of the except clause (55), "avif_unsupported" the
\* line returned at 47 when AVIF is asked for without the plugin
SingleImageResults(fmt, avif) ==
    IF fmt = "AVIF" /\ ~avif THEN {"avif_unsupported"} ELSE {"ok", "exc"}

\* lines 143-144: what the report counts
CountsAsSuccessful(r) == r = "ok"
CountsAsFailed(r)     == r = "exc"

\* variant: the cursor is read one step late, so the first task goes out twice
RepeatTask(c) == IF c = 0 THEN 1 ELSE c

\* the pool hands the tasks of the list out one by one, in order
NextTask(c) == c + 1

\* lines 113-129: collect, then prepare_compression_tasks: line 94 raises
\* KeyError for a format that is no key of OUTPUT_EXTENSIONS and nothing
\* catches it
PoolPrepare ==
    /\ mode = "pool" /\ ppc = "prepare"
    /\ ppc' = IF format_type \in DOMAIN OUTPUT_EXTENSIONS THEN "map" ELSE "crashed"
    /\ UNCHANGED <<cursor, busy, results, collected>>
    /\ UNCHANGED <<runParams, workerVars, countVars, eventVars, guiVars, planVars, auxVars>>

\* an idle pool process takes the next task of pool.imap(..., tasks)
PoolHandOut(w) ==
    /\ mode = "pool" /\ ppc = "map"
    /\ busy[w] = 0 /\ cursor < total_files
    /\ busy' = [busy EXCEPT ![w] = NextTask(cursor)]
    /\ cursor' = cursor + 1
    /\ started' = [started EXCEPT ![NextTask(cursor)] = @ + 1]
    /\ UNCHANGED <<ppc, results, collected, successful, errors>>
    /\ UNCHANGED <<runParams, workerVars, eventVars, guiVars, planVars, auxVars>>

\* lines 30-55: compress_single_image in process w
PoolWork(w) ==
    /\ mode = "pool" /\ ppc = "map"
    /\ busy[w] # 0
    /\ \E r \in SingleImageResults(format_type, AVIF_AVAILABLE) :
        /\ results' = [results EXCEPT ![busy[w]] = r]
        /\ raised' = IF r = "exc" THEN raised + 1 ELSE raised
    /\ busy' = [busy EXCEPT ![w] = 0]
    /\ UNCHANGED <<ppc, cursor, collected>>
    /\ UNCHANGED <<wpc, idx, is_cancelled, observed_cancel, outcome>>
    /\ UNCHANGED <<runParams, countVars, eventVars, guiVars, planVars, auxVars>>

\* lines 137-140: imap yields the results in task order; each is printed
PoolCollect ==
    /\ mode = "pool" /\ ppc = "map"
    /\ collected < total_files
    /\ results[collected + 1] # "none"
    /\ emitted' = Append(emitted, Ev("Log", results[collected + 1], collected + 1, 0))
    /\ collected' = collected + 1
    /\ UNCHANGED <<ppc, cursor, busy, results, queue, delivered>>
    /\ UNCHANGED <<runParams, workerVars, countVars, guiVars, planVars, auxVars>>

\* lines 142-155: count and print the report
PoolReport ==
    /\ mode = "pool" /\ ppc = "map"
    /\ collected = total_files
    /\ LET s == Cardinality({i \in 1 .. total_files : CountsAsSuccessful(results[i])})
           f == Cardinality({i \in 1 .. total_files : CountsAsFailed(results[i])})
       IN /\ successful' = s
          /\ errors' = f
          /\ emitted' = emitted \o FinishEvents(s, f)
    /\ ppc' = "done"
    /\ UNCHANGED <<cursor, busy, results, collected, queue, delivered, started>>
    /\ UNCHANGED <<runParams, workerVars, guiVars, planVars, auxVars>>

\* a KeyboardInterrupt reaches the loop of line 137: process_with_multiprocessing
\* has no cancellation flag and nothing in main.py catches the interrupt, so the
\* with block ends the pool's processes and lines 142-155 are not run
PoolInterrupt ==
    /\ mode = "pool" /\ ppc = "map"
    /\ ppc' = "interrupted"
    /\ busy' = [w \in Processes |-> 0]
    /\ UNCHANGED <<cursor, results, collected>>
    /\ UNCHANGED <<runParams, workerVars, countVars, eventVars, guiVars, planVars, auxVars>>

(* ------------------------------ paths ---------------------------------- *)

UpperLetters == "ABCDEFGHIJKLMNOPQRSTUVWXYZ"
LowerLetters == "abcdefghijklmnopqrstuvwxyz"

Char(s, i) == SubSeq(s, i, i)

\* str.lower() on one character
LowerChar(c) ==
    IF \E i \in 1 .. Len(UpperLetters) : Char(UpperLetters, i) = c
    THEN Char(LowerLetters, CHOOSE i \in 1 .. Len(UpperLetters) : Char(UpperLetters, i) = c)
    ELSE c

\* str.lower()
RECURSIVE Lower(_)
Lower(s) == IF Len(s) = 0 THEN "" ELSE LowerChar(Char(s, 1)) \o Lower(SubSeq(s, 2, Len(s)))

\* str.upper() on one character
UpperChar(c) ==
    IF \E i \in 1 .. Len(LowerLetters) : Char(LowerLetters, i) = c
    THEN Char(UpperLetters, CHOOSE i \in 1 .. Len(LowerLetters) : Char(LowerLetters, i) = c)
    ELSE c

\* str.upper()
RECURSIVE Upper(_)
Upper(s) == IF Len(s) = 0 THEN "" ELSE UpperChar(Char(s, 1)) \o Upper(SubSeq(s, 2, Len(s)))

\* str.rfind(c) + 1: the last position of c in s, 0 when there is none
RECURSIVE RFind(_, _)
RFind(s, c) ==
    IF Len(s) = 0 THEN 0
    ELSE IF Char(s, Len(s)) = c THEN Len(s)
    ELSE RFind(SubSeq(s, 1, Len(s) - 1), c)

\* str.endswith(t)
EndsWith(s, t) == Len(t) <= Len(s) /\ SubSeq(s, Len(s) - Len(t) + 1, Len(s)) = t

\* PurePath.name and the text of PurePath.parent with its separator
PathName(p)   == SubSeq(p, RFind(p, "/") + 1, Len(p))
PathParent(p) == SubSeq(p, 1, RFind(p, "/"))

\* PurePath.suffix: from the last dot of the name, unless that dot is the
\* first or the last character of the name
PathSuffix(p) ==
    LET n == PathName(p)
        i == RFind(n, ".")
    IN IF 1 < i /\ i < Len(n) THEN SubSeq(n, i, Len(n)) ELSE ""

\* PurePath.stem
PathStem(p) ==
    LET n == PathName(p)
    IN SubSeq(n, 1, Len(n) - Len(PathSuffix(p)))

\* PurePath.with_suffix(ext)
WithSuffix(p, ext) == PathParent(p) \o PathStem(p) \o ext

\* os.path.splitext(p)[0]: cut at the last dot of the last component when a
\* character other than a dot precedes it there
SplitextRoot(p) ==
    LET sep == RFind(p, "/")
        dot == RFind(p, ".")
    IN IF dot > sep /\ \E k \in sep + 1 .. dot - 1 : Char(p, k) # "."
       THEN SubSeq(p, 1, dot - 1)
       ELSE p

(* ----------------------------- planning -------------------------------- *)

\* candidate files of the planning requests
Paths == {"d/photo.webp", "d/photo.jpg", "d/photo.png", "e/photo.JPG"}

\* the files whose output names are planned one list at a time: every
\* extension a collector accepts, some in other letter cases, an extension no
\* collector accepts, a name that is nothing but an extension, and a name that
\* is the renamed output of another
NamePaths ==
    {"d/photo.jpg", "d/photo.jpeg", "d/photo.png", "d/photo.heic", "d/photo.heif",
     "d/photo.avif", "d/photo.JPG", "d/photo.Heic", "d/photo.AVIF", "d/photo.PNG",
     "d/photo.webp", "d/.jpg", "d/photo_compressed.jpg"}

\* str.strip(): white space is cut from both ends
IsSpace(c) == c \in {" ", "\t"}

RECURSIVE LStrip(_)
LStrip(s) ==
    IF Len(s) > 0 /\ IsSpace(Char(s, 1)) THEN LStrip(SubSeq(s, 2, Len(s))) ELSE s

RECURSIVE RStrip(_)
RStrip(s) ==
    IF Len(s) > 0 /\ IsSpace(Char(s, Len(s))) THEN RStrip(SubSeq(s, 1, Len(s) - 1)) ELSE s

Strip(s) == RStrip(LStrip(s))

\* variant: the stripped text is used as it is
NoDefault(s) == s

\* `... or "_compressed"` of widgets.py 232
OrDefault(s) == IF s = "" THEN "_compressed" ELSE s

\* FileOptionsWidget.get_postfix (widgets.py 230-232)
GetPostfix(text) == OrDefault(Strip(text))

\* what the postfix field can hold when Start is clicked: its initial text, an
\* empty and a blank text, and a text with white space around it
PostfixTexts == {"_compressed", "", " \t", " _min "}

\* get_postfix for every text, evaluated once
get_postfix_of == [text \in PostfixTexts |-> GetPostfix(text)]

\* postfix values of the requests
Postfixes == {get_postfix_of[text] : text \in PostfixTexts}

RECURSIVE SeqsUpTo(_, _)
SeqsUpTo(S, n) ==
    IF n = 0 THEN {<<>>}
    ELSE SeqsUpTo(S, n - 1) \cup {Append(q, x) : q \in SeqsUpTo(S, n - 1), x \in S}

Range(L) == {L[i] : i \in 1 .. Len(L)}

\* dict.fromkeys: the keys in insertion order, a key already present stays
\* where it is
RECURSIVE FromKeys(_, _)
FromKeys(L, keys) ==
    IF L = <<>> THEN keys
    ELSE FromKeys(Tail(L), IF Head(L) \in Range(keys) THEN keys ELSE Append(keys, Head(L)))

\* variant: nothing is removed
KeepAll(L) == L

\* list(dict.fromkeys(L)): the first occurrence of each element, in order
DictFromKeys(L) == FromKeys(L, <<>>)

\* list(set(L)): the elements once each, in the iteration order of a set of
\* strings, which the language leaves open
ListOfSet(L) ==
    {q \in [1 .. Cardinality(Range(L)) -> Range(L)] : Range(q) = Range(L)}

\* variant: the command line also collects files of an output extension
SupportedWithWebp == {".jpg", ".jpeg", ".png", ".webp"}

\* main.py SUPPORTED_FORMATS (line 26)
SUPPORTED_FORMATS == {".jpg", ".jpeg", ".png"}

\* the tuple of get_image_files_from_paths (utils.py 21)
supported_extensions == {".jpg", ".jpeg", ".png", ".heic", ".heif", ".avif"}

\* file_path.lower().endswith(extensions)
HasExtension(file_path, extensions) ==
    \E e \in extensions : EndsWith(Lower(file_path), e)

\* start_compression lines 199-205
StartCompressionPlan(files) ==
    LET unique_files == DictFromKeys(files)
        duplicate_count == Len(files) - Len(unique_files)
    IN [unique_files |-> unique_files,
        duplicate_count |-> duplicate_count,
        log |-> IF duplicate_count > 0 THEN <<duplicate_count>> ELSE <<>>]

\* variant: the extensions are compared without lower()
OutputPathCaseSensitive(file_path, fmt, del, postfix) ==
    LET extension == output_formats[fmt]
    IN IF PathSuffix(file_path) = extension /\ ~del
       THEN PathParent(file_path) \o PathStem(file_path) \o postfix \o extension
       ELSE WithSuffix(file_path, extension)

\* variant: the postfix is left out of the renamed output
RenamedWithoutPostfix(file_path, postfix, extension) ==
    PathParent(file_path) \o PathStem(file_path) \o extension

\* worker.py lines 78-81: input_path.parent / f"{base_name}{self.postfix}{extension}"
Renamed(file_path, postfix, extension) ==
    PathParent(file_path) \o PathStem(file_path) \o postfix \o extension

\* worker.py lines 69-83: the output path of one file
OutputPath(file_path, fmt, del, postfix) ==
    LET extension == output_formats[fmt]
        input_extension == Lower(PathSuffix(file_path))
        output_extension == Lower(extension)
    IN IF input_extension = output_extension /\ ~del
       THEN Renamed(file_path, postfix, extension)
       ELSE WithSuffix(file_path, extension)

\* OutputPath for every file and setting of the requests, evaluated once
output_path_of ==
    [p \in Paths \cup NamePaths, fmt \in DOMAIN output_formats, del \in BOOLEAN,
     postfix \in Postfixes |-> OutputPath(p, fmt, del, postfix)]

\* worker.py lines 46-52 and the paths of the loop, for self.files = files
WorkerPlan(files, fmt, del, postfix) ==
    LET unique_files == DictFromKeys(files)
        duplicates_count == Len(files) - Len(unique_files)
    IN [files |-> files,
        unique_files |-> unique_files,
        log |-> IF Len(files) # Len(unique_files) THEN <<duplicates_count>> ELSE <<>>,
        tasks |-> [i \in 1 .. Len(unique_files) |->
                     [input_path |-> unique_files[i],
                      output_path |-> output_path_of[unique_files[i], fmt, del, postfix]]]]

\* main.py line 98: the output path of one file
PoolOutputPath(input_path, fmt) == SplitextRoot(input_path) \o OUTPUT_EXTENSIONS[fmt]

\* PoolOutputPath for every file and format of the requests, evaluated once
pool_output_path_of ==
    [p \in Paths \cup NamePaths, fmt \in DOMAIN OUTPUT_EXTENSIONS |-> PoolOutputPath(p, fmt)]

\* main.py lines 94-101: line 94 raises KeyError for a format that is no key
PrepareCompressionTasks(image_files, fmt) ==
    IF fmt \notin DOMAIN OUTPUT_EXTENSIONS THEN [raised |-> "KeyError", tasks |-> <<>>]
    ELSE [raised |-> "",
          tasks |-> [i \in 1 .. Len(image_files) |->
                       [input_path |-> image_files[i],
                        output_path |-> pool_output_path_of[image_files[i], fmt]]]]

\* the variables of the single-task model while a run or planning is modelled
TaskIdle == job = <<>> /\ disk = <<>> /\ disk0 = <<>> /\ it = <<>>

\* the variables of the collection model while something else is modelled
DropIdle ==
    /\ files_to_process = <<>> /\ clear_enabled = FALSE /\ log_text = <<>>
    /\ urls = <<>> /\ reported = <<>> /\ ops = 0 /\ cli = ""
    /\ last_image_files = <<>> /\ workers = <<>> /\ pending = <<>>

CalcIdle == savings = <<>>

NameIdle == naming = <<>>

SetterIdle == compressor = <<>> /\ setter = <<>>

AuxIdle == TaskIdle /\ DropIdle /\ CalcIdle /\ NameIdle /\ SetterIdle

\* the run variables while planning is modelled
RunIdle ==
    /\ mode = "plan" /\ total_files = 0 /\ format_type = "" /\ AVIF_AVAILABLE = TRUE
    /\ delete_original = FALSE /\ wpc = "none" /\ idx = 0
    /\ successful = 0 /\ errors = 0 /\ is_cancelled = FALSE /\ observed_cancel = FALSE
    /\ raised = 0 /\ started = <<>> /\ outcome = "none"
    /\ emitted = <<>> /\ queue = <<>> /\ delivered = <<>>
    /\ gui = "idle" /\ start_enabled = FALSE /\ stop_enabled = FALSE
    /\ handled = <<>> /\ progress_bar = 0
    /\ ppc = "none" /\ cursor = 0 /\ busy = <<>> /\ results = <<>> /\ collected = 0

PlanInit ==
    /\ RunIdle
    /\ request \in {[files |-> files, format |-> fmt, delete_original |-> del,
                     text |-> text, postfix |-> get_postfix_of[text]] :
                        files \in SeqsUpTo(Paths, MaxLen), fmt \in DOMAIN output_formats,
                        del \in BOOLEAN, text \in PostfixTexts}
    /\ pstage = "request"
    /\ gui_plan = <<>> /\ worker_plan = <<>> /\ pool_plan = <<>>
    /\ gui_plan2 = <<>> /\ worker_plan2 = <<>>
    /\ AuxIdle

\* start_compression: returns at line 183 for an empty queue
PlanStartCompression ==
    /\ pstage = "request"
    /\ request.files # <<>>
    /\ gui_plan' = StartCompressionPlan(request.files)
    /\ pstage' = "gui"
    /\ UNCHANGED <<request, worker_plan, pool_plan, gui_plan2, worker_plan2, runVars, auxVars>>

\* CompressionWorker.__init__ (line 33) on the list start_compression passes
PlanWorkerInit ==
    /\ pstage = "gui"
    /\ \E files \in ListOfSet(gui_plan.unique_files) :
         worker_plan' = [files |-> files]
    /\ pstage' = "worker"
    /\ UNCHANGED <<request, gui_plan, pool_plan, gui_plan2, worker_plan2, runVars, auxVars>>

\* CompressionWorker.run: lines 46-52 and the output path of every iteration
PlanWorkerRun ==
    /\ pstage = "worker"
    /\ worker_plan' = WorkerPlan(worker_plan.files, request.format,
                                 request.delete_original, request.postfix)
    /\ pstage' = "planned"
    /\ UNCHANGED <<request, gui_plan, pool_plan, gui_plan2, worker_plan2, runVars, auxVars>>

\* the same three steps for the doubled list files ++ files; of the worker's
\* list only the set of its tasks and what it logs are kept
PlanDoubled ==
    /\ pstage = "planned"
    /\ LET g == StartCompressionPlan(request.files \o request.files) IN
        /\ gui_plan2' = g
        /\ \E files \in ListOfSet(g.unique_files) :
            LET w == WorkerPlan(files, request.format,
                                request.delete_original, request.postfix)
            IN worker_plan2' = [tasks |-> Range(w.tasks), log |-> w.log]
    /\ pstage' = "doubled"
    /\ UNCHANGED <<request, gui_plan, worker_plan, pool_plan, runVars, auxVars>>

\* process_with_multiprocessing line 125 on the same candidate list
PlanPoolPrepare ==
    /\ pstage = "request"
    /\ request.files # <<>>
    /\ pool_plan' = PrepareCompressionTasks(request.files, request.format)
    /\ pstage' = "pool"
    /\ UNCHANGED <<request, gui_plan, worker_plan, gui_plan2, worker_plan2, runVars, auxVars>>

PlanNext ==
    \/ PlanStartCompression
    \/ PlanWorkerInit
    \/ PlanWorkerRun
    \/ PlanDoubled
    \/ PlanPoolPrepare

PlanSpec == PlanInit /\ [][PlanNext]_vars

(* --------------------------- specification ----------------------------- *)

\* the planning variables while a run is modelled
PlanIdle ==
    /\ request = <<>> /\ pstage = "off"
    /\ gui_plan = <<>> /\ worker_plan = <<>> /\ pool_plan = <<>>
    /\ gui_plan2 = <<>> /\ worker_plan2 = <<>>

\* seq: the state right after start_compression has built and started the
\* worker (lines 192-221).  pool: the entry of process_with_multiprocessing.
Init ==
    /\ mode \in {"seq", "pool"}
    /\ total_files \in 1 .. MaxFiles
    /\ format_type \in RunFormats
    /\ AVIF_AVAILABLE \in BOOLEAN
    /\ delete_original \in (IF mode = "seq" THEN BOOLEAN ELSE {FALSE})
    /\ wpc = (IF mode = "seq" THEN "begin" ELSE "none")
    /\ idx = 0 /\ successful = 0 /\ errors = 0
    /\ is_cancelled = FALSE /\ observed_cancel = FALSE
    /\ raised = 0
    /\ started = [i \in 1 .. total_files |-> 0]
    /\ outcome = "none"
    /\ emitted = <<>> /\ queue = <<>> /\ delivered = <<>>
    /\ gui = "idle"
    /\ start_enabled = FALSE
    /\ stop_enabled = (mode = "seq")
    /\ handled = <<>>
    /\ progress_bar = 0
    /\ ppc = (IF mode = "pool" THEN "prepare" ELSE "none")
    /\ cursor = 0
    /\ busy = [w \in Processes |-> 0]
    /\ results = [i \in 1 .. total_files |-> "none"]
    /\ collected = 0
    /\ PlanIdle
    /\ AuxIdle

Next ==
    \/ WorkerSetup
    \/ WorkerLoop
    \/ WorkerTask
    \/ WorkerFinish
    \/ Deliver
    \/ StopCompression
    \/ StopCompressionReturn
    \/ PoolPrepare
    \/ \E w \in Processes : PoolHandOut(w)
    \/ \E w \in Processes : PoolWork(w)
    \/ PoolCollect
    \/ PoolReport
    \/ PoolInterrupt

Spec == Init /\ [][Next]_vars

\* a run of the sequential worker and its GUI thread alone, the originals kept
\* (removing an original is part of a task's one step and changes nothing in
\* what the two threads wait for)
SeqInit == Init /\ mode = "seq" /\ ~delete_original

SeqNext ==
    \/ WorkerSetup
    \/ WorkerLoop
    \/ WorkerTask
    \/ WorkerFinish
    \/ Deliver
    \/ StopCompression
    \/ StopCompressionReturn

\* the worker thread keeps being scheduled and every call it makes returns;
\* the GUI thread leaves wait() once the worker's run() has returned
LiveSpec ==
    /\ SeqInit /\ [][SeqNext]_vars
    /\ WF_vars(WorkerSetup \/ WorkerLoop \/ WorkerTask \/ WorkerFinish)
    /\ WF_vars(StopCompressionReturn)

(* ------------ one iteration of the loop against the file system -------- *)

\* the files a single task is run on, and the postfix (default of worker.py:29)
TaskPaths   == {"d/photo.webp", "d/photo.WEBP", "d/photo.jpg"}
TaskPostfix == "_compressed"

\* the formats a single task is run with: those of the runs and JPEG, which
\* the format list of the GUI offers and which has its extension in common
\* with files the GUI collects
TaskFormats == RunFormats \cup {"JPEG"}

\* quality values handed to the worker: one inside 0..100, two outside
Qualities == {-1, 50, 101}

\* where the program runs: a file system that tells photo.WEBP from photo.webp
\* and one that does not (under POSIX paths, or under Windows paths, whose
\* comparison ignores letter case)
Platforms == {"posix", "posix_nocase", "windows"}

FsFoldsCase(pf)   == pf \in {"posix_nocase", "windows"}
PathFoldsCase(pf) == pf = "windows"

\* OutputPath for every file and setting of a single task, evaluated once
task_output_path_of ==
    [p \in TaskPaths, fmt \in DOMAIN output_formats, del \in BOOLEAN |->
        OutputPath(p, fmt, del, TaskPostfix)]

TaskNames ==
    TaskPaths \cup {task_output_path_of[p, fmt, del] :
                        p \in TaskPaths, fmt \in DOMAIN output_formats, del \in BOOLEAN}

lower_of == [p \in TaskNames |-> Lower(p)]

\* the name under which the file system keeps the file of path p
FsName(pf, p) == IF FsFoldsCase(pf) THEN lower_of[p] ELSE p

\* Path.__eq__ (the comparison of line 120)
PathEq(pf, a, b) == IF PathFoldsCase(pf) THEN lower_of[a] = lower_of[b] ELSE a = b

\* Path.exists, a write of the whole file, Path.unlink
Exists(d, n)    == n \in DOMAIN d
Write(d, n, sz) == [m \in DOMAIN d \cup {n} |-> IF m = n THEN sz ELSE d[m]]
Remove(d, n)    == [m \in DOMAIN d \ {n} |-> d[m]]

Sizes == 1 .. MaxSize

\* the disks a task can find: its input and its output, each there or not
InitialDisks(pf, file_path, fmt, del) ==
    LET names == {FsName(pf, file_path)} \cup
                 (IF fmt \in DOMAIN output_formats
                  THEN {FsName(pf, task_output_path_of[file_path, fmt, del])} ELSE {})
    IN UNION {[S -> Sizes] : S \in SUBSET names}

\* compress_image (classes.py 87-89) on an input that exists: it returns having
\* written the output, or returns having written nothing, or raises; a save
\* that raises after opening an output that was already there leaves it cut
EncoderOutcomes(output_exists) ==
    {"written", "nothing", "raised"} \cup (IF output_exists THEN {"raised_cut"} ELSE {})

\* variant: the flag is not consulted
DeleteWithoutFlag(del, pf, input_path, output_path) == ~PathEq(pf, input_path, output_path)

\* line 120
ShouldDelete(del, pf, input_path, output_path) == del /\ ~PathEq(pf, input_path, output_path)

\* variant: no handler around unlink, its error reaches the handler of line 139
UnlinkErrorEscapes(u) == IF u = "failed" THEN "except" ELSE "count"

\* lines 121-131: the error of unlink is caught at 126, successful += 1 follows
AfterUnlink(u) == "count"

taskFrame ==
    <<runParams, is_cancelled, observed_cancel, delivered, guiVars, poolVars, planVars,
      job, disk0, dropVars, calcVars, nameVars, setterVars>>

\* lines 42-61, as WorkerSetup: neither quality nor the format name is checked
TaskSetup ==
    /\ mode = "task" /\ wpc = "begin"
    /\ IF SetupFails(format_type, AVIF_AVAILABLE)
       THEN /\ Emit(<<LogEv("critical")>>)
            /\ wpc' = "finish"
       ELSE /\ Emit(<<>>)
            /\ wpc' = "path"
    /\ UNCHANGED <<idx, raised, outcome, countVars, disk, it, taskFrame>>

\* lines 63-87: the flag is clear, the output path is derived and both lines
\* are logged; line 70 raises KeyError for a format that is no key
TaskPath ==
    /\ mode = "task" /\ wpc = "path"
    /\ started' = [started EXCEPT ![1] = @ + 1]
    /\ IF format_type \in DOMAIN output_formats
       THEN /\ it' = [it EXCEPT !.output_path =
                        task_output_path_of[job.file_path, format_type, delete_original]]
            /\ Emit(<<LogEv("info"), LogEv("info")>>)
            /\ wpc' = "access"
            /\ outcome' = outcome
       ELSE /\ it' = it
            /\ Emit(<<>>)
            /\ wpc' = "except"
            /\ outcome' = "keyerror"
    /\ UNCHANGED <<idx, raised, successful, errors, disk, taskFrame>>

\* variant: the check of the directory never fails
AccessGranted(dir_writable) == TRUE

\* os.access(output_dir, os.W_OK) of line 90
Access(dir_writable) == dir_writable

\* lines 89-94
TaskAccess ==
    /\ mode = "task" /\ wpc = "access"
    /\ IF Access(job.dir_writable)
       THEN wpc' = "compress" /\ outcome' = outcome
       ELSE wpc' = "except" /\ outcome' = "noperm"
    /\ UNCHANGED <<idx, raised, countVars, eventVars, disk, it, taskFrame>>

\* line 97: Image.open raises for an input that is not there; otherwise the
\* encoder runs with the quality the worker was given
TaskCompress ==
    /\ mode = "task" /\ wpc = "compress"
    /\ LET out == FsName(job.platform, it.output_path) IN
       IF ~Exists(disk, FsName(job.platform, job.file_path))
       THEN /\ wpc' = "except" /\ outcome' = "encfail"
            /\ UNCHANGED <<disk, it>>
       ELSE \E r \in EncoderOutcomes(Exists(disk, out)) :
            /\ it' = [it EXCEPT !.encoder_called = TRUE]
            /\ CASE r = "written" ->
                    \E sz \in Sizes : disk' = Write(disk, out, sz) /\ wpc' = "exists"
                                        /\ outcome' = outcome
                 [] r = "nothing" -> disk' = disk /\ wpc' = "exists" /\ outcome' = outcome
                 [] r = "raised" -> disk' = disk /\ wpc' = "except" /\ outcome' = "encfail"
                 [] r = "raised_cut" ->
                    \E sz \in Sizes : disk' = Write(disk, out, sz) /\ wpc' = "except"
                                        /\ outcome' = "encfail"
    /\ UNCHANGED <<idx, raised, countVars, eventVars, taskFrame>>

\* variant: a missing output is passed over and the task goes on to be counted
MissingOutputTolerated(found) == IF found THEN "unlink" ELSE "count"

\* `if output_path.exists(): ... else: raise FileNotFoundError` (lines 100, 132-135)
AfterExists(found) == IF found THEN "unlink" ELSE "except"

\* lines 100-117 and 132-135: the existence check, both sizes, the report
TaskExists ==
    /\ mode = "task" /\ wpc = "exists"
    /\ LET inp == FsName(job.platform, job.file_path)
           out == FsName(job.platform, it.output_path)
       IN IF Exists(disk, out) /\ Exists(disk, inp)
          THEN /\ it' = [it EXCEPT !.original_size = disk[inp], !.compressed_size = disk[out]]
               /\ Emit(<<LogEv("info")>>)
               /\ wpc' = AfterExists(TRUE) /\ outcome' = outcome
          ELSE /\ it' = it
               /\ Emit(<<>>)
               /\ wpc' = AfterExists(FALSE) /\ outcome' = "missing"
    /\ UNCHANGED <<idx, raised, countVars, disk, taskFrame>>

\* lines 119-129
TaskUnlink ==
    /\ mode = "task" /\ wpc = "unlink"
    /\ IF ShouldDelete(delete_original, job.platform, job.file_path, it.output_path)
       THEN \/ /\ disk' = Remove(disk, FsName(job.platform, job.file_path))
               /\ it' = [it EXCEPT !.unlink = "deleted"]
               /\ Emit(<<LogEv("info")>>)
               /\ wpc' = AfterUnlink("deleted")
            \/ /\ disk' = disk
               /\ it' = [it EXCEPT !.unlink = "delete_failed"]
               /\ Emit(<<LogEv("warning")>>)
               /\ wpc' = AfterUnlink("failed")
       ELSE /\ disk' = disk /\ it' = it
            /\ Emit(<<>>)
            /\ wpc' = "count"
    /\ UNCHANGED <<idx, raised, outcome, countVars, taskFrame>>

\* lines 131 and 137
TaskCount ==
    /\ mode = "task" /\ wpc = "count"
    /\ outcome' = "ok"
    /\ successful' = SuccessfulAfter("ok", successful)
    /\ Emit(<<TaskDoneEv(1)>>)
    /\ wpc' = "progress"
    /\ UNCHANGED <<idx, raised, errors, started, disk, it, taskFrame>>

\* lines 139-141
TaskExcept ==
    /\ mode = "task" /\ wpc = "except"
    /\ raised' = raised + 1
    /\ errors' = ErrorsAfter(outcome, errors)
    /\ Emit(<<FailureEv(1)>>)
    /\ wpc' = "progress"
    /\ UNCHANGED <<idx, outcome, successful, started, disk, it, taskFrame>>

\* lines 143-145
TaskProgress ==
    /\ mode = "task" /\ wpc = "progress"
    /\ Emit(<<ProgressEv(Progress(idx, total_files))>>)
    /\ idx' = idx + 1
    /\ wpc' = "finish"
    /\ UNCHANGED <<raised, outcome, countVars, disk, it, taskFrame>>

\* line 150
TaskFinish ==
    /\ mode = "task" /\ wpc = "finish"
    /\ Emit(FinishEvents(successful, errors))
    /\ wpc' = "done"
    /\ UNCHANGED <<idx, raised, outcome, countVars, disk, it, taskFrame>>

\* the worker was started on one file; the GUI and the pool stay out of it
TaskInit ==
    /\ mode = "task" /\ total_files = 1
    /\ format_type \in TaskFormats
    /\ AVIF_AVAILABLE \in BOOLEAN
    /\ delete_original \in BOOLEAN
    /\ wpc = "begin" /\ idx = 0 /\ successful = 0 /\ errors = 0
    /\ is_cancelled = FALSE /\ observed_cancel = FALSE
    /\ raised = 0 /\ started = <<0>> /\ outcome = "none"
    /\ emitted = <<>> /\ queue = <<>> /\ delivered = <<>>
    /\ gui = "idle" /\ start_enabled = FALSE /\ stop_enabled = TRUE
    /\ handled = <<>> /\ progress_bar = 0
    /\ ppc = "none" /\ cursor = 0 /\ busy = <<>> /\ results = <<>> /\ collected = 0
    /\ PlanIdle
    /\ job \in [file_path : TaskPaths, quality : Qualities,
                platform : Platforms, dir_writable : BOOLEAN]
    /\ disk0 \in InitialDisks(job.platform, job.file_path, format_type, delete_original)
    /\ disk = disk0
    /\ it = [output_path |-> "", original_size |-> 0, compressed_size |-> 0,
             encoder_called |-> FALSE, unlink |-> "kept"]
    /\ DropIdle /\ CalcIdle /\ NameIdle /\ SetterIdle

TaskNext ==
    \/ TaskSetup
    \/ TaskPath
    \/ TaskAccess
    \/ TaskCompress
    \/ TaskExists
    \/ TaskUnlink
    \/ TaskCount
    \/ TaskExcept
    \/ TaskProgress
    \/ TaskFinish

TaskSpec == TaskInit /\ [][TaskNext]_vars

(* ------------------- collecting the candidate files -------------------- *)

\* what is on disk: two images and a text file in directory d; gone.jpg is not
TreeFiles == {"d/photo.jpg", "d/photo.HEIC", "d/notes.txt"}
TreeDirs  == {"d"}

\* the paths a user drops or types
TopPaths == {"d/photo.jpg", "d/notes.txt", "d", "gone.jpg"}

\* os.path.isfile, os.path.isdir, os.path.exists
IsFile(p)     == p \in TreeFiles
IsDir(p)      == p \in TreeDirs
PathExists(p) == IsFile(p) \/ IsDir(p)

\* the files os.walk finds under a directory
walk_of == [dir \in TreeDirs |-> {f \in TreeFiles : PathParent(f) = dir \o "/"}]

\* file.lower().endswith(extensions) for the files on disk, evaluated once
gui_image_of == [f \in TreeFiles |-> HasExtension(f, supported_extensions)]
cli_image_of == [f \in TreeFiles |-> HasExtension(f, SUPPORTED_FORMATS)]

\* the orders in which a walk can yield the files of a set
Orders(S) == {q \in [1 .. Cardinality(S) -> S] : Range(q) = S}

\* get_image_files_from_paths (utils.py 20-36): the lists it can return; a
\* path that is neither a file nor a directory adds nothing and raises nothing
RECURSIVE GetImageFilesFromPaths(_)
GetImageFilesFromPaths(file_paths) ==
    IF file_paths = <<>> THEN {<<>>}
    ELSE LET file_path == Head(file_paths)
             found == IF IsFile(file_path)
                      THEN (IF gui_image_of[file_path] THEN {<<file_path>>} ELSE {<<>>})
                      ELSE IF IsDir(file_path)
                      THEN Orders({f \in walk_of[file_path] : gui_image_of[f]})
                      ELSE {<<>>}
         IN {a \o b : a \in found, b \in GetImageFilesFromPaths(Tail(file_paths))}

\* collect_image_files (main.py 58-79) for one path
CollectImageFiles(input_path) ==
    IF IsFile(input_path)
    THEN (IF cli_image_of[input_path] THEN {<<input_path>>} ELSE {<<>>})
    ELSE IF IsDir(input_path)
    THEN Orders({f \in walk_of[input_path] : cli_image_of[f]})
    ELSE {<<>>}

\* dropEvent lines 66-70: the paths that exist, in order
RECURSIVE ExistingOf(_)
ExistingOf(paths) ==
    IF paths = <<>> THEN <<>>
    ELSE (IF PathExists(Head(paths)) THEN <<Head(paths)>> ELSE <<>>) \o ExistingOf(Tail(paths))

\* variant: every collected file is taken as new
AlwaysNew(file_path, queued) == TRUE

\* `if file_path not in self.files_to_process` (main_window.py 150)
NotQueued(file_path, queued) == file_path \notin Range(queued)

\* handle_dropped_files lines 149-153: the image files not yet queued, in order
RECURSIVE NewFiles(_, _)
NewFiles(image_files, queued) ==
    IF image_files = <<>> THEN <<>>
    ELSE IF NotQueued(Head(image_files), queued)
         THEN <<Head(image_files)>>
              \o NewFiles(Tail(image_files), Append(queued, Head(image_files)))
         ELSE NewFiles(Tail(image_files), queued)

\* get_image_files_from_paths for every drop of existing paths, evaluated once
image_files_of ==
    [files \in SeqsUpTo(TopPaths, MaxDrop) |-> GetImageFilesFromPaths(files)]

collectFrame ==
    <<runParams, workerVars, countVars, eventVars, gui, handled,
      progress_bar, poolVars, planVars, taskVars, calcVars, nameVars, setterVars>>

\* variant: start_compression without the check of line 179
QueueNeverEmpty(q) == FALSE

\* `not self.files_to_process` (main_window.py 179), `not image_files` (main.py 118)
QueueEmpty(q) == q = <<>>

\* DropZone.dropEvent (widgets.py 64-76) and, through files_dropped,
\* handle_dropped_files (main_window.py 143-175)
DropEvent ==
    /\ mode = "collect" /\ cli = "" /\ ops < MaxOps
    /\ \E dropped \in SeqsUpTo(TopPaths, MaxDrop) \ {<<>>} :
        /\ urls' = dropped
        /\ LET files == ExistingOf(dropped) IN
           IF files = <<>>
           THEN /\ reported' = <<>>
                /\ UNCHANGED <<files_to_process, start_enabled, clear_enabled, log_text>>
           ELSE \E image_files \in image_files_of[files] :
                LET new_files == NewFiles(image_files, files_to_process) IN
                /\ files_to_process' = files_to_process \o new_files
                /\ reported' = (IF new_files # <<>> THEN <<"added", "total">>
                                ELSE IF files_to_process = <<>> THEN <<"none_found">>
                                ELSE <<"already_queued">>)
                /\ log_text' = log_text \o reported'
                /\ start_enabled' = (IF new_files # <<>> THEN TRUE
                                     ELSE IF files_to_process = <<>> THEN FALSE
                                     ELSE start_enabled)
                /\ clear_enabled' = (IF new_files # <<>> THEN TRUE
                                     ELSE IF files_to_process = <<>> THEN FALSE
                                     ELSE clear_enabled)
    /\ ops' = ops + 1
    /\ UNCHANGED <<cli, last_image_files, stop_enabled, workers, pending, collectFrame>>

\* clear_queue (main_window.py 259-268): the click needs the enabled button
ClearQueue ==
    /\ mode = "collect" /\ cli = "" /\ ops < MaxOps /\ clear_enabled
    /\ files_to_process' = <<>>
    /\ start_enabled' = FALSE /\ clear_enabled' = FALSE
    /\ reported' = <<"cleared">>
    /\ log_text' = Append(log_text, "cleared")
    /\ ops' = ops + 1
    /\ UNCHANGED <<urls, cli, last_image_files, stop_enabled, workers, pending, collectFrame>>

\* start_compression (main_window.py 177-223): the click needs the enabled
\* button; the new worker replaces self.worker and is started
GuiStartCompression ==
    /\ mode = "collect" /\ cli = "" /\ ops < MaxOps /\ start_enabled
    /\ IF QueueEmpty(files_to_process)
       THEN /\ reported' = <<"no_files_warning">>
            /\ UNCHANGED <<start_enabled, stop_enabled, log_text, workers>>
       ELSE /\ start_enabled' = FALSE /\ stop_enabled' = TRUE
            /\ reported' = <<"started">>
            /\ log_text' = <<"started">>
            /\ workers' = Append(workers, "running")
    /\ ops' = ops + 1
    /\ UNCHANGED <<files_to_process, clear_enabled, urls, cli, last_image_files, pending,
                   collectFrame>>

\* CompressionWorker.run of worker k returns: its last act was to emit
\* finished_processing (worker.py 150), which is queued for the GUI thread
GuiWorkerEnds ==
    /\ mode = "collect"
    /\ \E k \in 1 .. Len(workers) :
        /\ workers[k] = "running"
        /\ workers' = [workers EXCEPT ![k] = "ended"]
        /\ pending' = Append(pending, k)
    /\ UNCHANGED <<files_to_process, clear_enabled, log_text, urls, reported, ops, cli,
                   last_image_files, start_enabled, stop_enabled, collectFrame>>

\* the event loop runs compression_finished(successful, errors) for a queued
\* finished_processing signal (main_window.py 220, 233-257)
GuiCompressionFinished ==
    /\ mode = "collect" /\ pending # <<>>
    /\ pending' = Tail(pending)
    /\ start_enabled' = TRUE /\ stop_enabled' = FALSE
    /\ reported' = <<"completed">>
    /\ log_text' = Append(log_text, "completed")
    /\ UNCHANGED <<files_to_process, clear_enabled, urls, ops, cli, last_image_files, workers,
                   collectFrame>>

\* stop_compression (main_window.py 225-231): the click needs the enabled
\* button; self.worker is cancelled and waited for, then the cancellation is
\* reported
GuiStopCompression ==
    /\ mode = "collect" /\ cli = "" /\ ops < MaxOps /\ stop_enabled
    /\ LET k == Len(workers) IN
       IF k > 0 /\ workers[k] = "running"
       THEN /\ workers' = [workers EXCEPT ![k] = "ended"]
            /\ pending' = Append(pending, k)
       ELSE UNCHANGED <<workers, pending>>
    /\ start_enabled' = TRUE /\ stop_enabled' = FALSE
    /\ reported' = <<"cancelled">>
    /\ log_text' = Append(log_text, "cancelled")
    /\ ops' = ops + 1
    /\ UNCHANGED <<files_to_process, clear_enabled, urls, cli, last_image_files, collectFrame>>

\* main() lines 221-234 with process_with_multiprocessing lines 113-122: the
\* path typed by the user is checked, then searched
CliMain ==
    /\ mode = "collect" /\ cli = "" /\ ops = 0
    /\ \E user_input \in TopPaths :
        /\ urls' = <<user_input>>
        /\ IF ~PathExists(user_input)
           THEN /\ reported' = <<"path_missing">>
                /\ last_image_files' = last_image_files
                /\ cli' = "returned"
           ELSE \E found \in CollectImageFiles(user_input) :
                /\ last_image_files' = found
                /\ reported' = (IF QueueEmpty(found) THEN <<"none_found">> ELSE <<"found">>)
                /\ cli' = (IF QueueEmpty(found) THEN "returned" ELSE "pool")
    /\ ops' = ops + 1
    /\ UNCHANGED <<files_to_process, start_enabled, stop_enabled, clear_enabled, log_text,
                   workers, pending, collectFrame>>

\* the GUI right after construction, or main() before the path is typed
CollectInit ==
    /\ mode = "collect" /\ total_files = 0 /\ format_type = "" /\ AVIF_AVAILABLE = TRUE
    /\ delete_original = FALSE /\ wpc = "none" /\ idx = 0
    /\ successful = 0 /\ errors = 0 /\ is_cancelled = FALSE /\ observed_cancel = FALSE
    /\ raised = 0 /\ started = <<>> /\ outcome = "none"
    /\ emitted = <<>> /\ queue = <<>> /\ delivered = <<>>
    /\ gui = "idle" /\ start_enabled = FALSE /\ stop_enabled = FALSE
    /\ handled = <<>> /\ progress_bar = 0
    /\ ppc = "none" /\ cursor = 0 /\ busy = <<>> /\ results = <<>> /\ collected = 0
    /\ PlanIdle /\ TaskIdle /\ DropIdle /\ CalcIdle /\ NameIdle /\ SetterIdle

CollectNext ==
    \/ DropEvent
    \/ ClearQueue
    \/ CliMain
    \/ GuiStartCompression
    \/ GuiWorkerEnds
    \/ GuiCompressionFinished
    \/ GuiStopCompression

CollectSpec == CollectInit /\ [][CollectNext]_vars

(* ---- get_savings_info (gui/utils.py 78-92) as a function of two sizes ---- *)

\* the sizes tried: st_size is a whole number of bytes, never negative
Bytes == 0 .. MaxBytes \cup {400, 1000}

\* variant: the division is made whatever the original size
AnySize(original_size) == TRUE

\* `if original_size > 0` of line 90
PositiveSize(original_size) == original_size > 0

\* lines 89-92. saved_percent is the quotient num/den in exact arithmetic (the
\* rounding of Python's floats is left out); a division by zero raises
GetSavingsInfo(original_size, compressed_size) ==
    LET saved_bytes == original_size - compressed_size IN
    IF PositiveSize(original_size)
    THEN IF original_size = 0
         THEN [raised |-> "ZeroDivisionError", saved_bytes |-> 0, num |-> 0, den |-> 1]
         ELSE [raised |-> "", saved_bytes |-> saved_bytes,
               num |-> saved_bytes * 100, den |-> original_size]
    ELSE [raised |-> "", saved_bytes |-> saved_bytes, num |-> 0, den |-> 1]

SavingsInit ==
    /\ mode = "savings" /\ total_files = 0 /\ format_type = "" /\ AVIF_AVAILABLE = TRUE
    /\ delete_original = FALSE /\ wpc = "none" /\ idx = 0
    /\ successful = 0 /\ errors = 0 /\ is_cancelled = FALSE /\ observed_cancel = FALSE
    /\ raised = 0 /\ started = <<>> /\ outcome = "none"
    /\ emitted = <<>> /\ queue = <<>> /\ delivered = <<>>
    /\ gui = "idle" /\ start_enabled = FALSE /\ stop_enabled = FALSE
    /\ handled = <<>> /\ progress_bar = 0
    /\ ppc = "none" /\ cursor = 0 /\ busy = <<>> /\ results = <<>> /\ collected = 0
    /\ PlanIdle /\ TaskIdle /\ DropIdle /\ NameIdle /\ SetterIdle
    /\ savings \in [original_size : Bytes, compressed_size : Bytes,
                    called : {FALSE}, result : {<<>>}]

\* the call of worker.py 103-105
SavingsCall ==
    /\ mode = "savings" /\ ~savings.called
    /\ savings' = [savings EXCEPT
                     !.called = TRUE,
                     !.result = GetSavingsInfo(savings.original_size,
                                               savings.compressed_size)]
    /\ UNCHANGED <<runVars, planVars, taskVars, dropVars, nameVars, setterVars>>

SavingsNext == SavingsCall

SavingsSpec == SavingsInit /\ [][SavingsNext]_vars

(* ------------- the output names of both pipelines, list by list ---------- *)

\* file.lower().endswith(...) of each collector for the files, evaluated once
accepted_of ==
    [p \in NamePaths |-> [worker |-> HasExtension(p, supported_extensions),
                          pool   |-> HasExtension(p, SUPPORTED_FORMATS)]]

\* the files a collector keeps of a list of files, in order (utils.py 24-27,
\* main.py 70-72 and 75-77)
RECURSIVE SelectImages(_, _)
SelectImages(paths, pipeline) ==
    IF paths = <<>> THEN <<>>
    ELSE (IF accepted_of[Head(paths)][pipeline] THEN <<Head(paths)>> ELSE <<>>)
         \o SelectImages(Tail(paths), pipeline)

\* a list of files is dropped onto the GUI, with the format, the delete option
\* and the postfix set; or the files of a directory are found by the command
\* line, with a format
NameInit ==
    /\ mode = "names" /\ total_files = 0 /\ format_type = "" /\ AVIF_AVAILABLE = TRUE
    /\ delete_original = FALSE /\ wpc = "none" /\ idx = 0
    /\ successful = 0 /\ errors = 0 /\ is_cancelled = FALSE /\ observed_cancel = FALSE
    /\ raised = 0 /\ started = <<>> /\ outcome = "none"
    /\ emitted = <<>> /\ queue = <<>> /\ delivered = <<>>
    /\ gui = "idle" /\ start_enabled = FALSE /\ stop_enabled = FALSE
    /\ handled = <<>> /\ progress_bar = 0
    /\ ppc = "none" /\ cursor = 0 /\ busy = <<>> /\ results = <<>> /\ collected = 0
    /\ PlanIdle /\ TaskIdle /\ DropIdle /\ CalcIdle /\ SetterIdle
    /\ \E paths \in SeqsUpTo(NamePaths, MaxNames) \ {<<>>}, fmt \in DOMAIN output_formats :
        \/ \E del \in BOOLEAN, postfix \in Postfixes :
             naming = [pipeline |-> "worker", paths |-> paths, format |-> fmt,
                       delete_original |-> del, postfix |-> postfix,
                       stage |-> "request", files |-> <<>>, tasks |-> <<>>, raised |-> ""]
        \/ /\ \A i, j \in 1 .. Len(paths) : i # j => paths[i] # paths[j]
           /\ naming = [pipeline |-> "pool", paths |-> paths, format |-> fmt,
                        delete_original |-> FALSE, postfix |-> "",
                        stage |-> "request", files |-> <<>>, tasks |-> <<>>, raised |-> ""]

\* handle_dropped_files, start_compression and the worker's loop: the queue
\* of new image files, the worker's list of them, and an output path for each
NameWorkerPlan ==
    /\ mode = "names" /\ naming.pipeline = "worker" /\ naming.stage = "request"
    /\ LET queued == NewFiles(SelectImages(naming.paths, "worker"), <<>>) IN
       IF QueueEmpty(queued)
       THEN naming' = [naming EXCEPT !.stage = "empty"]
       ELSE \E files \in ListOfSet(StartCompressionPlan(queued).unique_files) :
            naming' = [naming EXCEPT
                         !.stage = "planned",
                         !.files = files,
                         !.tasks = WorkerPlan(files, naming.format, naming.delete_original,
                                              naming.postfix).tasks]
    /\ UNCHANGED <<runVars, planVars, taskVars, dropVars, calcVars, setterVars>>

\* process_with_multiprocessing lines 116-125: collect, return if nothing was
\* found, prepare the tasks
NamePoolPlan ==
    /\ mode = "names" /\ naming.pipeline = "pool" /\ naming.stage = "request"
    /\ LET image_files == SelectImages(naming.paths, "pool")
           prepared == PrepareCompressionTasks(image_files, naming.format)
       IN IF QueueEmpty(image_files)
          THEN naming' = [naming EXCEPT !.stage = "empty"]
          ELSE naming' = [naming EXCEPT
                            !.stage = "planned",
                            !.files = image_files,
                            !.tasks = prepared.tasks,
                            !.raised = prepared.raised]
    /\ UNCHANGED <<runVars, planVars, taskVars, dropVars, calcVars, setterVars>>

NameNext ==
    \/ NameWorkerPlan
    \/ NamePoolPlan

NameSpec == NameInit /\ [][NameNext]_vars

(* --------------- the properties of ImageCompressor (classes.py) ---------- *)

\* Python values handed in as a quality: integers, a bool (an instance of
\* int), a float with an integral value, a string and None; n is the number
\* the value compares as
QualityValues ==
    {[kind |-> "int", n |-> k] : k \in {-1, 0, 50, 100, 101}}
    \cup {[kind |-> "bool", n |-> 1], [kind |-> "float", n |-> 50],
          [kind |-> "str", n |-> 50], [kind |-> "NoneType", n |-> 0]}

\* Python values handed in as an output format: strings and None
FormatValues ==
    {[kind |-> "str", s |-> f] : f \in {"webp", "WEBP", "AVIF", "heif", "JPEG", "PNG"}}
    \cup {[kind |-> "NoneType", s |-> ""]}

\* str.upper() of the format strings, evaluated once
upper_of == [v \in {w \in FormatValues : w.kind = "str"} |-> Upper(v.s)]

\* isinstance(value, int): bool is a subclass of int
IsInstanceInt(value) == value.kind \in {"int", "bool"}

\* variant: the ends of the range are refused
InRangeOpen(n) == 0 < n /\ n < 100

\* the negation of `value < 0 or value > 100` (line 151)
InRange(n) == ~(n < 0 \/ n > 100)

\* the quality setter (lines 138-155): the object after the assignment and the
\* exception raised, "" for none
QualitySetter(obj, value) ==
    IF ~IsInstanceInt(value) THEN [obj |-> obj, raised |-> "TypeError"]
    ELSE IF ~InRange(value.n) THEN [obj |-> obj, raised |-> "ValueError"]
    ELSE [obj |-> [obj EXCEPT !.quality = value], raised |-> ""]

\* the output_format setter (lines 166-193): value.upper() raises for a value
\* that is no string; the format is stored at line 182, before the test of the
\* AVIF plugin at lines 189-193
OutputFormatSetter(obj, value, avif) ==
    IF value.kind # "str" THEN [obj |-> obj, raised |-> "AttributeError"]
    ELSE LET upper == upper_of[value] IN
         IF upper \notin DOMAIN output_formats THEN [obj |-> obj, raised |-> "ValueError"]
         ELSE [obj |-> [obj EXCEPT !.output_format = upper],
               raised |-> IF upper = "AVIF" /\ ~avif THEN "ImportError" ELSE ""]

\* an object that __init__ has built (lines 64-76): any quality, any format
\* name in upper case, AVIF only with the plugin
SetterInit ==
    /\ mode = "setter" /\ total_files = 0 /\ format_type = ""
    /\ AVIF_AVAILABLE \in BOOLEAN
    /\ delete_original = FALSE /\ wpc = "none" /\ idx = 0
    /\ successful = 0 /\ errors = 0 /\ is_cancelled = FALSE /\ observed_cancel = FALSE
    /\ raised = 0 /\ started = <<>> /\ outcome = "none"
    /\ emitted = <<>> /\ queue = <<>> /\ delivered = <<>>
    /\ gui = "idle" /\ start_enabled = FALSE /\ stop_enabled = FALSE
    /\ handled = <<>> /\ progress_bar = 0
    /\ ppc = "none" /\ cursor = 0 /\ busy = <<>> /\ results = <<>> /\ collected = 0
    /\ PlanIdle /\ TaskIdle /\ DropIdle /\ CalcIdle /\ NameIdle
    /\ compressor \in [quality : QualityValues,
                       output_format : {upper_of[v] : v \in DOMAIN upper_of}]
    /\ ~SetupFails(compressor.output_format, AVIF_AVAILABLE)
    /\ setter = [attr |-> "", value |-> <<>>, raised |-> "", before |-> compressor,
                 calls |-> 0]

\* compressor.quality = value
SetQuality ==
    /\ mode = "setter" /\ setter.calls < MaxSets
    /\ \E value \in QualityValues :
        LET r == QualitySetter(compressor, value) IN
        /\ compressor' = r.obj
        /\ setter' = [attr |-> "quality", value |-> value, raised |-> r.raised,
                      before |-> compressor, calls |-> setter.calls + 1]
    /\ UNCHANGED <<runVars, planVars, taskVars, dropVars, calcVars, nameVars>>

\* compressor.output_format = value
SetOutputFormat ==
    /\ mode = "setter" /\ setter.calls < MaxSets
    /\ \E value \in FormatValues :
        LET r == OutputFormatSetter(compressor, value, AVIF_AVAILABLE) IN
        /\ compressor' = r.obj
        /\ setter' = [attr |-> "output_format", value |-> value, raised |-> r.raised,
                      before |-> compressor, calls |-> setter.calls + 1]
    /\ UNCHANGED <<runVars, planVars, taskVars, dropVars, calcVars, nameVars>>

SetterNext ==
    \/ SetQuality
    \/ SetOutputFormat

SetterSpec == SetterInit /\ [][SetterNext]_vars

(* ------------------------------ claims --------------------------------- *)

SeqRun  == mode = "seq"
PoolRun == mode = "pool"

WorkerStep == WorkerSetup \/ WorkerLoop \/ WorkerTask \/ WorkerFinish

Count(evs, type) == Cardinality({k \in 1 .. Len(evs) : evs[k].type = type})

AllStartedOnce == \A i \in 1 .. total_files : started[i] = 1

\* C1: an error raised inside one task is counted as that task's failure
\* (errors counts exactly the tasks that raised) and does not end the run: the
\* worker leaves its loop only when the list is exhausted or the cancellation
\* flag was observed (or setup failed before the first task), it can always take
\* its next step until it is done, and a finished run has processed every task
\* (unless cancelled) and has emitted the terminal event.  In pool mode every
\* result of the except clause is counted as failed in the report.
C1_ErrorIsolated ==
    /\ SeqRun =>
        /\ errors = raised
        /\ wpc \in {"finish", "done"} =>
              \/ idx = total_files
              \/ observed_cancel
              \/ (idx = 0 /\ raised = 0 /\ SetupFails(format_type, AVIF_AVAILABLE))
        /\ wpc # "done" => ENABLED WorkerStep
        /\ wpc = "done" => Count(emitted, "Completed") = 1
    /\ PoolRun /\ ppc = "done" =>
        /\ errors = raised
        /\ collected = total_files
        /\ Count(emitted, "Completed") = 1

\* C1 witness: an uncancelled run is done, a task raised and the last task,
\* processed after it, succeeded
C1_Witness ==
    /\ SeqRun /\ wpc = "done" /\ ~observed_cancel
    /\ raised >= 1 /\ outcome = "ok" /\ idx = total_files /\ total_files >= 2

\* C2 as stated: succeeded + failed is the number of tasks processed so far, and
\* an uncancelled run over N tasks ends with succeeded + failed = N
C2_Original ==
    SeqRun =>
        /\ successful + errors = idx
        /\ (wpc = "done" /\ ~is_cancelled) => successful + errors = total_files

\* C2 amended: succeeded + failed is the number of tasks processed so far; a run
\* whose setup succeeded and that did not observe a cancellation ends with
\* succeeded + failed = N (N - 1 and 1 when exactly one task raised); a run
\* whose setup failed ends with 0 and 0
C2_Amended ==
    SeqRun =>
        /\ successful + errors = idx
        /\ (wpc = "done" /\ ~observed_cancel /\ ~SetupFails(format_type, AVIF_AVAILABLE)) =>
              /\ successful + errors = total_files
              /\ raised = 1 => (successful = total_files - 1 /\ errors = 1)
        /\ (wpc = "done" /\ SetupFails(format_type, AVIF_AVAILABLE)) =>
              (successful = 0 /\ errors = 0)

\* C2 witness: an uncancelled run over three or more tasks, exactly one raised
C2_Witness ==
    /\ SeqRun /\ wpc = "done" /\ ~observed_cancel
    /\ total_files >= 3 /\ raised = 1 /\ successful = total_files - 1 /\ errors = 1

\* C3: in sequential mode a task is started only by a step that finds the flag
\* clear; once the worker has observed the flag, no task is started, nothing is
\* counted and no task event is emitted any more; a task in progress is left
\* only by completing it, whatever the flag
C3_CancelStopsStarts ==
    [][SeqRun =>
        /\ (started' # started) => ~is_cancelled
        /\ observed_cancel =>
              /\ started' = started /\ idx' = idx
              /\ successful' = successful /\ errors' = errors
              /\ Count(emitted', "Progress") = Count(emitted, "Progress")
              /\ Count(emitted', "TaskDone") = Count(emitted, "TaskDone")
              /\ Count(emitted', "Log") = Count(emitted, "Log")
        /\ (wpc = "task" /\ wpc' # "task") => idx' = idx + 1
      ]_vars

\* C3 witness: the worker stopped on the flag after some but not all tasks
C3_Witness ==
    /\ SeqRun /\ wpc = "done" /\ observed_cancel
    /\ 0 < idx /\ idx < total_files
    /\ started[idx] = 1 /\ started[idx + 1] = 0

\* C4: at most one Completed event is emitted, a finished run has emitted
\* exactly one, and it is the last event emitted; the GUI thread receives the
\* connected signals in emission order, so Completed is also the last delivered
C4_CompletedLast ==
    /\ Count(emitted, "Completed") <= 1
    /\ (wpc = "done" \/ ppc = "done") => Count(emitted, "Completed") = 1
    /\ Count(emitted, "Completed") = 1 => emitted[Len(emitted)].type = "Completed"
    /\ SeqRun =>
        /\ delivered \o queue = SelectConnected(emitted)
        /\ Count(delivered, "Completed") = 1 =>
              (delivered[Len(delivered)].type = "Completed" /\ queue = <<>>)

\* C4 witness: the GUI thread has received the whole stream of a run that
\* processed tasks, the Completed event last
C4_Witness ==
    /\ SeqRun /\ idx >= 2 /\ queue = <<>>
    /\ delivered # <<>> /\ delivered[Len(delivered)].type = "Completed"
    /\ Count(delivered, "Progress") >= 2

\* C5 as stated: once a cancelled run has handed a result to the caller, a
\* result with cancelled = true that carries the counts accumulated up to the
\* stop is among those handed over
C5_Claim ==
    (SeqRun /\ wpc = "done" /\ observed_cancel /\ handled # <<>>) =>
        \E k \in 1 .. Len(handled) :
            /\ handled[k].cancelled
            /\ handled[k].successful = successful
            /\ handled[k].errors = errors

\* C10 as stated: no task is started twice, an uncancelled run starts every
\* task exactly once, and no two pool processes hold the same task
C10_Original ==
    /\ \A i \in 1 .. total_files : started[i] <= 1
    /\ (SeqRun /\ wpc = "done" /\ ~is_cancelled) => AllStartedOnce
    /\ (PoolRun /\ ppc = "done") => AllStartedOnce
    /\ PoolRun => \A v, w \in Processes : (v # w /\ busy[v] # 0) => busy[v] # busy[w]

\* C10 amended: as stated, for the runs whose setup succeeded; a run whose setup
\* failed starts no task at all
C10_Amended ==
    /\ \A i \in 1 .. total_files : started[i] <= 1
    /\ (SeqRun /\ wpc = "done" /\ ~observed_cancel
            /\ ~SetupFails(format_type, AVIF_AVAILABLE)) => AllStartedOnce
    /\ (SeqRun /\ SetupFails(format_type, AVIF_AVAILABLE)) =>
            \A i \in 1 .. total_files : started[i] = 0
    /\ (PoolRun /\ ppc = "done") => AllStartedOnce
    /\ PoolRun => \A v, w \in Processes : (v # w /\ busy[v] # 0) => busy[v] # busy[w]

\* C10 witness: an uncancelled sequential run over several tasks is done
C10_Witness ==
    /\ SeqRun /\ wpc = "done" /\ ~observed_cancel /\ total_files >= 2
    /\ ~SetupFails(format_type, AVIF_AVAILABLE) /\ AllStartedOnce

\* the positions of the Progress events in the stream
ProgressAt(evs) == {k \in 1 .. Len(evs) : evs[k].type = "Progress"}

\* the stream holds a Progress event and the last one carries p
LastProgressIs(evs, p) ==
    /\ ProgressAt(evs) # {}
    /\ \A k \in ProgressAt(evs) : (\A j \in ProgressAt(evs) : j <= k) => evs[k].a = p

\* the Progress values are non-decreasing and lie in 0..100
ProgressMonotone(evs) ==
    /\ \A k \in ProgressAt(evs) : evs[k].a \in 0 .. 100
    /\ \A j, k \in ProgressAt(evs) : j < k => evs[j].a <= evs[k].a

\* C11 as stated: the Progress values of a run are non-decreasing, lie in
\* 0..100, and the last Progress value of a finished run is 100
C11_Original ==
    SeqRun =>
        /\ ProgressMonotone(emitted)
        /\ wpc = "done" => LastProgressIs(emitted, 100)

\* C11 amended: the Progress values of a run are non-decreasing and lie in
\* 0..100, as emitted and as shown by the progress bar; a run whose setup
\* succeeded and that processed every task emits one Progress per task, the
\* last one 100; a run that stopped on the cancellation flag after k < N tasks
\* emits k values, all below 100; a run whose setup failed emits none
C11_Amended ==
    SeqRun =>
        /\ ProgressMonotone(emitted)
        /\ ProgressMonotone(delivered)
        /\ progress_bar \in 0 .. 100
        /\ Count(emitted, "Progress") = idx
        /\ idx = total_files => LastProgressIs(emitted, 100)
        /\ idx < total_files => \A k \in ProgressAt(emitted) : emitted[k].a < 100
        /\ (wpc = "done" /\ ~observed_cancel /\ ~SetupFails(format_type, AVIF_AVAILABLE)) =>
              LastProgressIs(emitted, 100)
        /\ SetupFails(format_type, AVIF_AVAILABLE) => ProgressAt(emitted) = {}

\* C11 witness: an uncancelled run over three tasks is done and the bar shows
\* the last of the values 33, 66, 100
C11_Witness ==
    /\ SeqRun /\ wpc = "done" /\ ~observed_cancel /\ total_files = 3
    /\ queue = <<>> /\ progress_bar = 100
    /\ \E i, j \in ProgressAt(emitted) : emitted[i].a = 33 /\ emitted[j].a = 66

\* the number of events of the stream equal to ev
Times(evs, ev) == Cardinality({k \in 1 .. Len(evs) : evs[k] = ev})

\* C12: every processed task has produced exactly one outcome event, either
\* the TaskDone event with its file or the failure Log event with its file and
\* reason, never both and never neither; a task not yet processed has produced
\* none; the TaskDone events are as many as the tasks counted successful and
\* the failure events as many as those counted failed.  In pool mode every
\* collected task has produced exactly one result line.
C12_OneOutcomeEvent ==
    /\ SeqRun =>
        /\ \A i \in 1 .. total_files :
              Times(emitted, TaskDoneEv(i)) + Times(emitted, FailureEv(i)) =
                  (IF i <= idx THEN 1 ELSE 0)
        /\ Count(emitted, "TaskDone") = successful
        /\ Cardinality({k \in 1 .. Len(emitted) : emitted[k].level = "error"}) = errors
    /\ PoolRun =>
        \A i \in 1 .. total_files :
            Cardinality({k \in 1 .. Len(emitted) :
                            emitted[k].type = "Log" /\ emitted[k].a = i}) =
                (IF i <= collected THEN 1 ELSE 0)

\* C12 witness: a finished run in which the first task failed and the second
\* succeeded, each with its one event
C12_Witness ==
    /\ SeqRun /\ wpc = "done" /\ total_files >= 2
    /\ Times(emitted, FailureEv(1)) = 1 /\ Times(emitted, TaskDoneEv(1)) = 0
    /\ Times(emitted, TaskDoneEv(2)) = 1 /\ Times(emitted, FailureEv(2)) = 0

\* C16 as stated: with a format name outside {HEIF, WEBP, AVIF, JPEG} no task
\* is begun and no task is counted or reported as failed
C16_Claim ==
    format_type \notin DOMAIN output_formats =>
        /\ \A i \in 1 .. total_files : started[i] = 0
        /\ errors = 0
        /\ \A i \in 1 .. total_files : Times(emitted, FailureEv(i)) = 0

\* C17 as stated: a pool run that was stopped after some completions has
\* reported a result (cancelled, with succeeded + failed <= N)
C17_Claim ==
    (PoolRun /\ ppc = "interrupted" /\ collected >= 1) =>
        /\ Count(emitted, "Completed") = 1
        /\ successful + errors <= total_files

\* the tasks begun so far
Begun == {i \in 1 .. total_files : started[i] >= 1}

\* C18: once the caller waits for the worker, the worker eventually stops and
\* the wait returns; while the flag is set no task is begun, and at most one
\* task (the one in progress) is begun and not completed at any time, so at
\* most that one task is completed after the request
C18_BoundedWait ==
    /\ (SeqRun /\ gui = "waiting") ~> (gui = "idle" /\ wpc = "done")
    /\ [](SeqRun => (Cardinality(Begun) - idx \in {0, 1}
                      /\ (Cardinality(Begun) - idx = 1 <=> wpc = "task")))
    /\ [][(SeqRun /\ is_cancelled) => (started' = started /\ idx' <= idx + 1)]_vars

\* C18 witness: the caller asked to stop during the second of three tasks and
\* its wait has returned with the worker stopped after that task
C18_Witness ==
    /\ SeqRun /\ is_cancelled /\ observed_cancel /\ wpc = "done" /\ gui = "idle"
    /\ total_files = 3 /\ idx = 2
    /\ handled # <<>> /\ handled[1].cancelled

TaskRun == mode = "task"

\* the names on disk of the task's input and output
InputName  == FsName(job.platform, job.file_path)
OutputName == FsName(job.platform, it.output_path)

\* C13: the step that removes the original is taken only with delete_original
\* set, after the output was found present, and for an output path that
\* differs from the input path; a task that removed its original ends counted
\* as succeeded, and a task that ends counted as failed, or that runs without
\* delete_original, leaves its input on disk if it was there
C13_DeleteOnlyWhen ==
    /\ [][(TaskRun /\ Exists(disk, InputName) /\ ~Exists(disk', InputName)) =>
            /\ delete_original
            /\ wpc = "unlink" /\ Exists(disk, OutputName)
            /\ it.output_path # job.file_path
            /\ errors = 0 /\ wpc' = "count"
         ]_vars
    /\ [](TaskRun =>
            /\ (wpc = "done" /\ it.unlink = "deleted") => (successful = 1 /\ errors = 0)
            /\ (errors = 1 \/ ~delete_original) =>
                  (Exists(disk0, InputName) => Exists(disk, InputName)))

\* C13 witness: a task with delete_original set has written photo.webp from
\* photo.jpg, removed photo.jpg and is counted as succeeded
C13_Witness ==
    /\ TaskRun /\ wpc = "done" /\ delete_original /\ successful = 1
    /\ job.file_path = "d/photo.jpg" /\ it.output_path = "d/photo.webp"
    /\ it.unlink = "deleted" /\ ~Exists(disk, InputName) /\ Exists(disk, OutputName)

\* C14: when unlink fails after a successful compression the task is counted
\* as succeeded and not as failed, the only trace is one warning Log event (no
\* failure event), the original stays, and the iteration goes on to its
\* TaskDone and Progress events and to the next step of the run
C14_DeleteFailureIsWarning ==
    (TaskRun /\ it.unlink = "delete_failed") =>
        /\ errors = 0 /\ raised = 0 /\ wpc \in {"count", "progress", "finish", "done"}
        /\ Times(emitted, LogEv("warning")) = 1 /\ Times(emitted, FailureEv(1)) = 0
        /\ Exists(disk, InputName)
        /\ wpc # "count" => (successful = 1 /\ Times(emitted, TaskDoneEv(1)) = 1)
        /\ wpc = "done" => (Times(emitted, ProgressEv(100)) = 1
                            /\ Times(emitted, CompletedEv(1, 0)) = 1)

\* C14 witness: a finished task whose original could not be removed
C14_Witness ==
    /\ TaskRun /\ wpc = "done" /\ delete_original /\ it.unlink = "delete_failed"
    /\ successful = 1 /\ Exists(disk, OutputName)

\* C15 as stated: with a quality outside 0..100 no task is begun, the encoder
\* is never called and the disk stays as it was
C15_Claim ==
    (TaskRun /\ job.quality \notin 0 .. 100) =>
        /\ started[1] = 0
        /\ ~it.encoder_called
        /\ disk = disk0

\* C20 as stated: when a supplied top-level path does not exist, the caller
\* is told so, in a way that differs from the report of a search that found no
\* matching image
C20_Claim ==
    (mode = "collect" /\ \E k \in 1 .. Len(urls) : ~PathExists(urls[k])) =>
        /\ reported # <<>>
        /\ reported # <<"none_found">>
        /\ "path_missing" \in Range(reported)

Planned == pstage \in {"planned", "doubled"}

Distinct(L) == \A i, j \in 1 .. Len(L) : i # j => L[i] # L[j]

Inputs(tasks)  == [i \in 1 .. Len(tasks) |-> tasks[i].input_path]
Outputs(tasks) == [i \in 1 .. Len(tasks) |-> tasks[i].output_path]

FirstIndex(L, x) == CHOOSE i \in 1 .. Len(L) : L[i] = x /\ \A j \in 1 .. i - 1 : L[j] # x

\* the path without the extension of its file name
WithoutExtension(p) == SubSeq(p, 1, RFind(p, ".") - 1)

\* C6 as stated, for the files the collectors accept: the output paths of the
\* tasks planned from distinct input paths are pairwise distinct, in the
\* worker's plan and in the pool's
C6_Claim ==
    /\ (Planned /\ \A p \in Range(request.files) : HasExtension(p, supported_extensions)) =>
            Distinct(Outputs(worker_plan.tasks))
    /\ (pstage = "pool" /\ Distinct(request.files)
            /\ \A p \in Range(request.files) : HasExtension(p, SUPPORTED_FORMATS)) =>
            Distinct(Outputs(pool_plan.tasks))

\* the output path the collision policy prescribes: the input path with its
\* extension replaced by the extension of the target format, the postfix put
\* before that extension exactly when the input name ends in the same extension
\* (letter case ignored) and delete_original is off
PolicyPath ==
    [p \in Paths, fmt \in DOMAIN output_formats, del \in BOOLEAN, postfix \in Postfixes |->
        LET ext == output_formats[fmt]
            collides == EndsWith(Lower(p), ext) /\ ~del
        IN WithoutExtension(p) \o (IF collides THEN postfix ELSE "") \o ext]

\* C7: every planned output path is the one the collision policy prescribes;
\* photo.webp with WEBP gives photo_compressed.webp, and photo.webp itself when
\* delete_original is on
C7_CollisionPolicy ==
    Planned =>
        \A k \in 1 .. Len(worker_plan.tasks) :
            LET t == worker_plan.tasks[k] IN
               /\ t.output_path = PolicyPath[t.input_path, request.format,
                                             request.delete_original, request.postfix]
               /\ (t.input_path = "d/photo.webp" /\ request.format = "WEBP"
                        /\ request.postfix = "_compressed") =>
                    t.output_path = (IF request.delete_original THEN "d/photo.webp"
                                     ELSE "d/photo_compressed.webp")

\* C7 witness: photo.webp was planned for WEBP with the originals kept
C7_Witness ==
    /\ Planned /\ ~request.delete_original /\ request.postfix = "_compressed"
    /\ request.format = "WEBP"
    /\ [input_path |-> "d/photo.webp", output_path |-> "d/photo_compressed.webp"]
            \in Range(worker_plan.tasks)

\* C8 as stated: the task list holds no input path twice, holds every candidate
\* path, and lists the paths in the order of their first occurrence in the
\* candidate list
C8_Claim ==
    Planned =>
        LET ins == Inputs(worker_plan.tasks) IN
            /\ Distinct(ins)
            /\ Range(ins) = Range(request.files)
            /\ \A i, j \in 1 .. Len(ins) :
                  i < j => FirstIndex(request.files, ins[i]) < FirstIndex(request.files, ins[j])

\* what the two planning steps report as the number of removed duplicates
Reported(g, w) == g.log \o w.log

\* C9 as stated: planning L ++ L gives the task set of planning L, and the
\* reported number of removed duplicates is len(L)
C9_Original ==
    pstage = "doubled" =>
        /\ worker_plan2.tasks = Range(worker_plan.tasks)
        /\ Reported(gui_plan2, worker_plan2) = <<Len(request.files)>>

\* C9 amended: planning L ++ L gives the task set of planning L; the reported
\* number of removed duplicates is len(L ++ L) minus the number of distinct
\* paths of L, reported once (by start_compression, never by the worker), which
\* is len(L) exactly when L holds no path twice
C9_Amended ==
    pstage = "doubled" =>
        /\ worker_plan2.tasks = Range(worker_plan.tasks)
        /\ Reported(gui_plan2, worker_plan2) =
              <<2 * Len(request.files) - Cardinality(Range(request.files))>>
        /\ worker_plan2.log = <<>>
        /\ Distinct(request.files) <=>
              Reported(gui_plan2, worker_plan2) = <<Len(request.files)>>

\* C9 witness: a list of several distinct paths was planned once and doubled
C9_Witness ==
    /\ pstage = "doubled" /\ Len(request.files) >= 2 /\ Distinct(request.files)
    /\ gui_plan2.duplicate_count = Len(request.files)
    /\ Cardinality(worker_plan2.tasks) = Len(request.files)

\* C19 as stated, for lists without duplicates whose files both collectors
\* accept: the pool's planning of a request yields the tasks (input and output
\* paths) that the sequential planning of the same request yields
C19_Claim ==
    (pstage = "pool" /\ Distinct(request.files)
        /\ \A p \in Range(request.files) : HasExtension(p, SUPPORTED_FORMATS)) =>
        LET w == WorkerPlan(request.files, request.format,
                            request.delete_original, request.postfix)
        IN /\ pool_plan.raised = ""
           /\ Len(pool_plan.tasks) = Len(w.tasks)
           /\ Range(pool_plan.tasks) = Range(w.tasks)

\* C21: while the GUI queue is empty no step starts a worker, whatever is
\* clicked, and the command line starts the pool only for a non-empty list of
\* collected images (the workers and the pool are all that runs tasks and
\* touches files)
C21_NothingExecutes ==
    [][/\ (mode = "collect" /\ files_to_process = <<>>) => Len(workers') = Len(workers)
       /\ (mode = "collect" /\ cli' = "pool") => last_image_files' # <<>>]_vars

\* C21 witness: Start was clicked with an empty queue after an earlier run, and
\* only that earlier worker exists
C21_Witness ==
    /\ reported = <<"no_files_warning">> /\ files_to_process = <<>>
    /\ Len(workers) = 1

\* the files of the tree that lie at or under the given paths and whose names
\* end, whatever the case, with one of the six extensions of the claim
Claimed(paths) ==
    {f \in TreeFiles :
        /\ \E e \in {".jpg", ".jpeg", ".png", ".heic", ".heif", ".avif"} :
              EndsWith(Lower(f), e)
        /\ \E k \in 1 .. Len(paths) :
              \/ f = paths[k]
              \/ IsDir(paths[k]) /\ PathParent(f) = paths[k] \o "/"}

\* Claimed for every drop and every typed path, evaluated once
claimed_of == [paths \in SeqsUpTo(TopPaths, MaxDrop) |-> Claimed(paths)]

\* C22 as stated: what a collector returns for existing paths is exactly the
\* files at or under them that carry one of the six extensions; for the GUI,
\* the queue after a first drop, and for the command line, the collected list
C22_Claim ==
    /\ (mode = "collect" /\ cli = "" /\ ops = 1 /\ urls # <<>>) =>
          Range(files_to_process) = claimed_of[urls]
    /\ (mode = "collect" /\ cli # "" /\ reported # <<"path_missing">>) =>
          Range(last_image_files) = claimed_of[urls]

C24_BlankPostfix ==
    (Planned /\ Strip(request.text) = "") =>
        /\ request.postfix = "_compressed"
        /\ \A i \in 1 .. Len(worker_plan.tasks) :
              LET t == worker_plan.tasks[i] IN
              (~request.delete_original
                 /\ Lower(PathSuffix(t.input_path)) = Lower(output_formats[request.format])) =>
                    /\ t.output_path # t.input_path
                    /\ PathStem(t.output_path) = PathStem(t.input_path) \o "_compressed"

\* C24 witness: a run planned with a blank text renamed an output
C24_Witness ==
    /\ Planned /\ request.text = " \t" /\ ~request.delete_original
    /\ \E i \in 1 .. Len(worker_plan.tasks) :
          /\ worker_plan.tasks[i].input_path = "d/photo.jpg"
          /\ worker_plan.tasks[i].output_path = "d/photo_compressed.jpg"

IsPrefix(a, b) == Len(a) <= Len(b) /\ SubSeq(b, 1, Len(a)) = a

\* C25: in every step of a GUI session the queue holds no path twice; a step
\* that is not clear-queue keeps the queued paths in place and order and adds,
\* after them, only image paths; clear-queue leaves the queue empty
C25_QueueAppends ==
    [][mode = "collect" =>
         /\ Distinct(files_to_process')
         /\ IF ops' = ops + 1 /\ reported' = <<"cleared">>
            THEN files_to_process' = <<>>
            ELSE /\ IsPrefix(files_to_process, files_to_process')
                 /\ \A k \in Len(files_to_process) + 1 .. Len(files_to_process') :
                       /\ gui_image_of[files_to_process'[k]]
                       /\ files_to_process'[k] \notin Range(files_to_process)]_vars

\* C25 witness: a second drop, of the directory that holds the queued image
\* and one more, added only the one more, behind the first
C25_Witness ==
    /\ mode = "collect" /\ urls = <<"d">>
    /\ log_text = <<"added", "total", "added", "total">>
    /\ files_to_process = <<"d/photo.jpg", "d/photo.HEIC">>

\* C26 as stated: at every moment of a GUI session at most one of the workers
\* started so far is still running
C26_Claim ==
    mode = "collect" =>
        Cardinality({k \in 1 .. Len(workers) : workers[k] = "running"}) <= 1

\* C27 as stated: once the user has stopped a running compression, the GUI
\* handles the end of that run at most once, as cancelled, and never as
\* completed
C27_Claim ==
    (SeqRun /\ is_cancelled) =>
        /\ Len(handled) <= 1
        /\ \A k \in 1 .. Len(handled) : handled[k].cancelled

\* C28 as stated: in the tasks the worker plans for one run of files that the
\* GUI collector accepts, no task's output path is the input path of another
\* task
C28_Claim ==
    (Planned /\ \A p \in Range(request.files) : HasExtension(p, supported_extensions)) =>
        \A i, j \in 1 .. Len(worker_plan.tasks) :
            i # j => worker_plan.tasks[i].output_path # worker_plan.tasks[j].input_path

\* C29: a task whose destination directory is not writable never reaches the
\* encoder and leaves the disk as it was; the check of the directory is made
\* before the encoder is called, its failure is counted as one failed task and
\* none succeeded, reported by one failure event, and the iteration goes on to
\* its Progress event and the run to its end
C29_WritableChecked ==
    /\ (TaskRun /\ ~job.dir_writable) =>
          /\ ~it.encoder_called /\ disk = disk0
          /\ wpc \notin {"compress", "exists", "unlink", "count"}
    /\ (TaskRun /\ wpc = "access") => ~it.encoder_called
    /\ (TaskRun /\ outcome = "noperm") =>
          /\ ~job.dir_writable /\ successful = 0
          /\ wpc \in {"except", "progress", "finish", "done"}
          /\ wpc # "except" =>
                (errors = 1 /\ Times(emitted, FailureEv(1)) = 1
                 /\ Times(emitted, TaskDoneEv(1)) = 0)
          /\ wpc = "done" => (Times(emitted, ProgressEv(100)) = 1
                              /\ Times(emitted, CompletedEv(0, 1)) = 1)

\* C29 witness: a finished task that was refused at the directory check
C29_Witness ==
    /\ TaskRun /\ wpc = "done" /\ outcome = "noperm" /\ errors = 1
    /\ ~it.encoder_called /\ Exists(disk, InputName)

\* C30: a task whose encoder returned without an error and left no output
\* file is counted as failed and not as succeeded, with one failure event and
\* no TaskDone event, and its original is still on disk, never unlinked,
\* whether or not delete_original is set
C30_MissingOutputFails ==
    (TaskRun /\ outcome = "missing") =>
        /\ it.encoder_called /\ ~Exists(disk, OutputName)
        /\ successful = 0
        /\ it.unlink = "kept" /\ Exists(disk, InputName)
        /\ wpc \in {"except", "progress", "finish", "done"}
        /\ wpc # "except" =>
              (errors = 1 /\ Times(emitted, FailureEv(1)) = 1
               /\ Times(emitted, TaskDoneEv(1)) = 0)
        /\ wpc = "done" => Times(emitted, CompletedEv(0, 1)) = 1

\* C30 witness: with delete_original set, a finished task whose encoder
\* returned and wrote nothing
C30_Witness ==
    /\ TaskRun /\ wpc = "done" /\ outcome = "missing" /\ delete_original
    /\ it.encoder_called /\ errors = 1 /\ Exists(disk, InputName)

\* C31: in a sequential run whose compressor cannot be constructed (AVIF
\* requested without the AVIF plugin) no task is begun, nothing is counted, no
\* Progress event is emitted, and the worker ends with exactly one Completed
\* event, which reports 0 succeeded and 0 failed
C31_SetupFailure ==
    (SeqRun /\ format_type = "AVIF" /\ ~AVIF_AVAILABLE) =>
        /\ Begun = {} /\ successful = 0 /\ errors = 0 /\ raised = 0
        /\ wpc \in {"begin", "finish", "done"}
        /\ Count(emitted, "Progress") = 0
        /\ Count(emitted, "TaskDone") = 0
        /\ Count(emitted, "Completed") = (IF wpc = "done" THEN 1 ELSE 0)
        /\ wpc = "done" => Times(emitted, CompletedEv(0, 0)) = 1

\* C31 witness: a run of several files that ended at the failed setup
C31_Witness ==
    /\ SeqRun /\ format_type = "AVIF" /\ ~AVIF_AVAILABLE /\ total_files >= 2
    /\ wpc = "done" /\ Times(emitted, LogEv("critical")) = 1
    /\ Times(emitted, CompletedEv(0, 0)) = 1

\* C32 as stated: when a pool run has reported, every task's result is counted
\* as succeeded or as failed and as one of them only, so the two counts add up
\* to the number of tasks
C32_Claim ==
    (PoolRun /\ ppc = "done") =>
        /\ \A i \in 1 .. total_files :
              CountsAsSuccessful(results[i]) # CountsAsFailed(results[i])
        /\ successful + errors = total_files

\* C33 as stated: the original size a task has read for its report is the size
\* its input file had when the task began, before the encoder wrote
C33_Claim ==
    (TaskRun /\ it.original_size # 0) =>
        /\ Exists(disk0, InputName)
        /\ it.original_size = disk0[InputName]

\* C34 as stated: once a task is counted as succeeded, a file is at its output
\* path, on every platform and for every pair of input and output names
C34_Claim ==
    (TaskRun /\ successful = 1 /\ wpc \in {"progress", "finish", "done"}) =>
        Exists(disk, OutputName)

\* str.lower() of the files and of their planned outputs, evaluated once
name_lower_of ==
    [p \in NamePaths
        \cup {output_path_of[q, fmt, del, postfix] :
                q \in NamePaths, fmt \in DOMAIN output_formats, del \in BOOLEAN,
                postfix \in Postfixes}
        \cup {pool_output_path_of[q, fmt] : q \in NamePaths, fmt \in DOMAIN OUTPUT_EXTENSIONS}
     |-> Lower(p)]

\* C35: in the tasks the worker plans with delete_original off, for files of
\* every accepted extension in any letter case and every format, no task's
\* output path is its own input path, nor the same name in another letter case
C35_OwnSourceKept ==
    (mode = "names" /\ naming.pipeline = "worker" /\ naming.stage = "planned"
        /\ ~naming.delete_original /\ naming.postfix # "") =>
        \A i \in 1 .. Len(naming.tasks) :
            LET t == naming.tasks[i] IN
            /\ t.output_path # t.input_path
            /\ name_lower_of[t.output_path] # name_lower_of[t.input_path]

\* C35 witness: photo.JPG was planned for JPEG with its original kept, and its
\* output is the renamed photo_compressed.jpg
C35_Witness ==
    /\ mode = "names" /\ naming.pipeline = "worker" /\ naming.stage = "planned"
    /\ ~naming.delete_original /\ naming.format = "JPEG"
    /\ \E i \in 1 .. Len(naming.tasks) :
          /\ naming.tasks[i].input_path = "d/photo.JPG"
          /\ naming.tasks[i].output_path = "d/photo_compressed.jpg"

\* C36: in the tasks the pool pipeline prepares, for every format it has an
\* extension for, no task's output path is the path of a collected file, its
\* own input or another's, nor the same name in another letter case
C36_PoolOutputsApart ==
    (mode = "names" /\ naming.pipeline = "pool" /\ naming.stage = "planned"
        /\ naming.format \in DOMAIN OUTPUT_EXTENSIONS) =>
        /\ naming.raised = "" /\ Len(naming.tasks) = Len(naming.files)
        /\ \A i, j \in 1 .. Len(naming.tasks) :
              /\ naming.tasks[i].input_path = naming.files[i]
              /\ naming.tasks[i].output_path # naming.files[j]
              /\ name_lower_of[naming.tasks[i].output_path] # name_lower_of[naming.files[j]]

\* C36 witness: photo.JPG and photo.png were collected and planned for WEBP
C36_Witness ==
    /\ mode = "names" /\ naming.pipeline = "pool" /\ naming.stage = "planned"
    /\ naming.format = "WEBP" /\ naming.files = <<"d/photo.JPG", "d/photo.png">>
    /\ naming.tasks[1].output_path = "d/photo.webp"

\* C37: an assignment to quality stores the value exactly when it is an
\* integer (an instance of int) from 0 to 100 and then raises nothing; a value
\* that is no integer raises TypeError, an integer outside 0..100 raises
\* ValueError, and after either error the object is as it was before
C37_QualitySetter ==
    (mode = "setter" /\ setter.attr = "quality") =>
        LET v == setter.value
            integer == v.kind \in {"int", "bool"}
        IN /\ (integer /\ 0 <= v.n /\ v.n <= 100) <=> setter.raised = ""
           /\ setter.raised = "" => (compressor.quality = v
                                     /\ compressor.output_format = setter.before.output_format)
           /\ ~integer <=> setter.raised = "TypeError"
           /\ (integer /\ (v.n < 0 \/ v.n > 100)) <=> setter.raised = "ValueError"
           /\ setter.raised # "" => compressor = setter.before

\* C37 witness: quality 100 was stored, then 101 was refused and 100 stayed
C37_Witness ==
    /\ mode = "setter" /\ setter.attr = "quality" /\ setter.calls = 2
    /\ setter.value = [kind |-> "int", n |-> 101] /\ setter.raised = "ValueError"
    /\ compressor.quality = [kind |-> "int", n |-> 100]
    /\ setter.before.quality = [kind |-> "int", n |-> 100]

\* C38: an assignment to output_format that raises, for an unsupported format
\* name or for AVIF while the AVIF plugin is unavailable, leaves the stored
\* output format as it was before the assignment
C38_Claim ==
    (mode = "setter" /\ setter.attr = "output_format"
     /\ setter.raised \in {"ValueError", "ImportError"}) =>
        compressor.output_format = setter.before.output_format

====
